---- MODULE Spec2Model ----
(***************************************************************************)
(* A model of the cluster control plane of the vector-search engine:       *)
(*   - ConsensusState (consensus_state.rs): applying committed Raft        *)
(*     entries, the applied-progress cursor, the one-shot apply waiters;   *)
(*   - TableOfContent (toc.rs): the catalog of collections, the alias      *)
(*     store, their two read/write locks and the process-wide write gate;  *)
(*   - the segment contract (entry_point.rs): the per-point version gate;  *)
(*   - the Raft storage, the shard transfers, the proposal channel, the    *)
(*     creation of a collection, the order of the locks, and the update    *)
(*     operations (operation_effect.rs, payload_ops.rs);                   *)
(*   - the memory-mapped vector store (mmap_vectors.rs): its two files,    *)
(*     the deleted flags and their count.                                  *)
(* Each subsystem has its own specification over the shared variables.     *)
(***************************************************************************)
EXTENDS Integers, Sequences, FiniteSets, TLC

(***************************************************************************)
(* Bounds of the model.                                                    *)
(***************************************************************************)
MaxLog == 2
MaxWaiters == 2
MaxBatch == 3
MaxUpdates == 2
MaxOpNum == 5
MaxIndex == 3
MaxTerm == 2
WaitTicks == 2
MaxQueued == 3

NoneIdx == 0 - 1
NoWaiter == 0

(***************************************************************************)
(* Consensus: values.                                                      *)
(***************************************************************************)
\* this_peer_id of the node that is modelled
ThisPeer == 1
Peers == {1, 2}

\* ConsensusOperations: the keys of the waiter map.  CollectionMeta operations
\* are opaque to ConsensusState (it is generic over the CollectionContainer).
\* CollectionMetaOperations::Nop with a random token, lines 555-560
NopOperation == [type |-> "Nop", arg |-> 0]
MetaOps == {[type |-> "Meta", arg |-> 1], [type |-> "Meta", arg |-> 2]}
PeerOps == {[type |-> t, arg |-> p] : t \in {"AddPeer", "RemovePeer"}, p \in Peers}
ConsensusOperations == MetaOps \cup PeerOps \cup {NopOperation}
NoOp == [type |-> "None", arg |-> 0]

\* Result<bool, StorageError> of a meta operation, by class.
OkResults == {"OkTrue", "OkFalse"}
UserErrors == {"UserErr"}
ServiceErrors == {"ServiceErr"}
OpResults == OkResults \cup UserErrors \cup ServiceErrors

\* What a Raft entry carries: an empty entry (a new leader's no-op), a Normal
\* entry with a consensus operation, a ConfChangeV2 entry with one change and
\* the context bytes, or an entry of any other type.
EntryData ==
    {[kind |-> "Empty", op |-> NoOp, change |-> "-", node |-> 0, ctx |-> "-"]}
    \cup {[kind |-> "Normal", op |-> o, change |-> "-", node |-> 0, ctx |-> "-"] :
            o \in MetaOps}
    \cup {[kind |-> "ConfChange", op |-> NoOp, change |-> c, node |-> p, ctx |-> "-"] :
            c \in {"AddNode", "RemoveNode"}, p \in Peers}
    \cup {[kind |-> "ConfChange", op |-> NoOp, change |-> "AddLearnerNode",
           node |-> 2, ctx |-> x] : x \in {"uri", "empty", "garbage"}}
    \cup {[kind |-> "Unsupported", op |-> NoOp, change |-> "-", node |-> 0, ctx |-> "-"]}

VARIABLES
    wal,         \* ConsensusOpWal: the entries, wal[k].index = k (no snapshot yet)
    pers,        \* Persistent, in memory
    disk,        \* Persistent, as last written to its file
    dirty,       \* Persistent.dirty: the last save failed
    waiters,     \* on_consensus_op_apply: operation -> waiter (NoWaiter: none)
    recv,        \* per waiter, what its receiver has seen
    sent,        \* per waiter, the results sent to it, in order
    nextWaiter,  \* waiters created so far
    pcApply,     \* the driver's position: "idle" or inside apply_entries ("loop")
    stopped,     \* the consensus driver has stopped
    ret,         \* the last return value of apply_entries: "none", "true", "false"
    handled,     \* the entries this call has applied or skipped, in order
    tocLog,      \* the (index, op) this call dispatched to the ToC, in order
    lastApply    \* what the last loop iteration did

consVars == <<wal, pers, disk, dirty, waiters, recv, sent, nextWaiter, pcApply,
              stopped, ret, handled, tocLog, lastApply>>

VARIABLES
    collections,   \* TableOfContent.collections: the names in the catalog
    aliases,       \* AliasPersistence: alias name -> collection name (NoName: none)
    pcToc,         \* the thread that executes meta operations: "idle", "wantCat",
                   \* "inBatch" (in the loop of update_aliases), "hung"
    batchLen,      \* actions of the ChangeAliases batch in hand (or handled last)
    batchApplied,  \* actions of that batch that were applied
    catWriter,     \* the catalog lock is held for writing
    catHeld,       \* read guards of the catalog lock, per reader
    catQueue,      \* who waits for the catalog lock, first come first served
    aliasWriter,   \* the alias store's lock is held for writing
    pcRead,        \* per reader, its position in get_collection
    readName,      \* per reader, the name it asked for
    readSeen,      \* per reader, what its resolution saw
    lastMeta,      \* the last meta operation and its result
    scenario       \* how far the alias-chain scenario of alias_tests.rs has come

tocVars == <<collections, aliases, pcToc, batchLen, batchApplied, catWriter, catHeld,
             catQueue, aliasWriter, pcRead, readName, readSeen, lastMeta, scenario>>

VARIABLES
    isWriteLocked,  \* TableOfContent.is_write_locked
    collState,      \* the updates the collection "c" has taken in
    lastUpdate      \* the last call of TableOfContent::update and how it ended

gateVars == <<isWriteLocked, collState, lastUpdate>>

VARIABLES
    segVersion,     \* SegmentEntry::version
    points,         \* per point id: whether it is there, its version, its payload
    lastSegOp       \* the last operation on the segment and its result

segVars == <<segVersion, points, lastSegOp>>

VARIABLES
    raftLog,        \* ConsensusOpWal as the Storage trait reads it: (index, term)
    mem,            \* the reference log that takes the same appends and snapshots
    lastSto         \* the last call on the storage, its arguments and its result

stoVars == <<raftLog, mem, lastSto>>

VARIABLES
    replicas,       \* shard 1 of the collection "c": peer -> ReplicaState
    transfers,      \* the live transfers of the collection "c"
    lastXfer        \* the last shard operation, what it started, how it ended

xferVars == <<replicas, transfers, lastXfer>>

VARIABLES
    leaderReady,    \* is_leader_established
    pcPropose,      \* per caller, its position in its propose call
    proposeArg,     \* per caller, the operation and with_confirmation
    waitedFor,      \* per caller, the ticks it has waited for a leader
    proposeChannel, \* what went over propose_sender: (caller, operation)
    proposeWaiter,  \* per caller, the waiter it registered (NoWaiter: none)
    nopWaiter,      \* per caller, the waiter of its follow-up Nop (NoWaiter: none)
    proposeRes      \* per caller, what its call returned

propVars == <<leaderReady, pcPropose, proposeArg, waitedFor, proposeChannel,
              proposeWaiter, nopWaiter, proposeRes>>

VARIABLES
    cluster,        \* consensus_proposal_sender is Some: the node runs in cluster mode
    catalog,        \* collections: name -> the params of the collection (NoColl: none)
    collDirs,       \* the names that have a directory under collections/
    snapDirs,       \* the names that have a directory under snapshots/
    onDisk,         \* name -> the params Collection::new wrote to disk (NoColl: none)
    localActive,    \* name -> the local shards whose replica is Active
    pcCreate,       \* position of the create_collection call: "idle", "build", ...
    creArg,         \* the arguments of the running create_collection call
    lastCreate      \* the last catalog operation: what it was given, how it ended

creVars == <<cluster, catalog, collDirs, snapDirs, onDisk, localActive, pcCreate,
             creArg, lastCreate>>

VARIABLES
    taskPath,       \* per task, the function it runs (NoPath: none)
    taskProg,       \* per task, the lock operations it has still to do
    held            \* per task, the guards it holds, in the order it got them

lockVars == <<taskPath, taskProg, held>>

VARIABLES
    opIn,            \* the update operation at hand
    ringIn,          \* the hash ring: point id -> shard id
    debugAssertions, \* the build has debug assertions on
    effectOut,       \* what estimate_effect_area returned for opIn
    splitOut         \* what split_by_shard returned for opIn and ringIn

fnVars == <<opIn, ringIn, debugAssertions, effectOut, splitOut>>

VARIABLES
    vectorsFile,     \* the file of the vectors: its first bytes and its rows
    deletedFile,     \* the file of the deletion flags, one byte per row
    mmapVectors,     \* the MmapVectors value (NoStore: none)
    lastMmap         \* history: the last call on the store and what it gave

mmVars == <<vectorsFile, deletedFile, mmapVectors, lastMmap>>

otherVars == <<creVars, lockVars, fnVars, mmVars>>

nonConsVars == <<tocVars, gateVars, segVars, stoVars, xferVars, propVars, otherVars>>
nonTocVars == <<consVars, gateVars, segVars, stoVars, xferVars, propVars, otherVars>>
nonGateVars == <<consVars, tocVars, segVars, stoVars, xferVars, propVars, otherVars>>
nonSegVars == <<consVars, tocVars, gateVars, stoVars, xferVars, propVars, otherVars>>

vars == <<consVars, tocVars, gateVars, segVars, stoVars, xferVars, propVars, otherVars>>

(***************************************************************************)
(* EntryApplyProgressQueue (consensus/entry_queue.rs, not among the source *)
(* files; modelled from the specification, sections 3 and 8 scenario 4).   *)
(***************************************************************************)
NoProgress == [has |-> FALSE, next |-> 0, last |-> 0]

NewProgress(first, last) == [has |-> TRUE, next |-> first, last |-> last]

Current(q) == IF q.has /\ q.next <= q.last THEN q.next ELSE NoneIdx

Applied(q) == IF q.has THEN [q EXCEPT !.next = q.next + 1] ELSE q

QueueLen(q) == IF q.has /\ q.next <= q.last THEN q.last - q.next + 1 ELSE 0

(***************************************************************************)
(* ConsensusOpWal (consensus/consensus_wal.rs, not among the source files; *)
(* modelled from the specification, section 4.G).                          *)
(***************************************************************************)
WalLastIndex(w) == Len(w)

WalHasEntry(w, i) == i >= 1 /\ i <= Len(w)

WalEntry(w, i) == w[i]

WalAppend(w, d) == Append(w, [index |-> Len(w) + 1, data |-> d])

(***************************************************************************)
(* ConsensusState::apply_entries, the loop body.                           *)
(***************************************************************************)
\* lines 314-318: the entry the loop handles next
MutUnappliedIndexLast(p) == IF Current(p.progress) = NoneIdx THEN NoneIdx ELSE p.progress.last
UnappliedIndex(p) == Current(p.progress)

\* lines 334-351: which result of a Normal entry stops consensus
MutStopOnAnyError(result) == result \notin OkResults
StopOnResult(result) == result \in ServiceErrors

\* line 389: the waiter map after the waiter of `op` was taken out
MutKeepWaiter(w, op) == w
WaitersAfterRemove(w, op) == [w EXCEPT ![op] = NoWaiter]

\* lines 221-225, 270-274, 403-407: on_apply.send(result); a receiver that has
\* timed out is gone and the send fails, which is only logged
RecvAfterSend(r, w, result) ==
    IF w = NoWaiter \/ r[w] # "waiting" THEN r ELSE [r EXCEPT ![w] = "Got"]

SentAfterSend(s, w, result) ==
    IF w = NoWaiter THEN s ELSE [s EXCEPT ![w] = Append(s[w], result)]

\* raw_node.apply_conf_change (line 236): the new ConfState
ConfStateAfter(cs, d) ==
    CASE d.change = "AddNode" ->
            [voters |-> cs.voters \cup {d.node}, learners |-> cs.learners \ {d.node}]
      [] d.change = "RemoveNode" ->
            [voters |-> cs.voters \ {d.node}, learners |-> cs.learners \ {d.node}]
      [] OTHER ->
            [voters |-> cs.voters \ {d.node}, learners |-> cs.learners \cup {d.node}]

\* TableOfContent::remove_peer, the peer address map after it succeeded
PeersAfterRemove(ps, peer) == IF peer = ThisPeer THEN ps \cap {ThisPeer} ELSE ps \ {peer}

(***************************************************************************)
(* Persistent (consensus/persistent.rs, not among the source files;        *)
(* modelled from the specification, section 4.F): a mutator changes a      *)
(* clone, writes it atomically and swaps the in-memory value on success.   *)
(***************************************************************************)
InitPersistent ==
    [progress |-> NoProgress,
     conf |-> [voters |-> {ThisPeer}, learners |-> {}],
     peers |-> {ThisPeer},
     hard_state |-> [term |-> 0, commit |-> 0],
     latest_snapshot_meta |-> [index |-> 0, term |-> 0]]

NoApply == [index |-> NoneIdx, kind |-> "None", op |-> NoOp, result |-> "-",
            waiter |-> NoWaiter, saveFailed |-> FALSE, io |-> "none"]

ConsInit ==
    /\ wal = <<>>
    /\ pers = InitPersistent
    /\ disk = InitPersistent
    /\ dirty = FALSE
    /\ waiters = [o \in ConsensusOperations |-> NoWaiter]
    /\ recv = [w \in 1..MaxWaiters |-> "none"]
    /\ sent = [w \in 1..MaxWaiters |-> <<>>]
    /\ nextWaiter = 0
    /\ pcApply = "idle"
    /\ stopped = FALSE
    /\ ret = "none"
    /\ handled = <<>>
    /\ tocLog = <<>>
    /\ lastApply = NoApply

(***************************************************************************)
(* The consensus driver (consensus.rs, not among the source files) is the  *)
(* only caller of append_entries, set_unapplied_entries and apply_entries; *)
(* it hands over each batch of committed entries once, in index order.     *)
(***************************************************************************)
\* ConsensusState::append_entries, of an entry with data from D
AppendEntriesOf(D) ==
    /\ ~stopped /\ pcApply = "idle"
    /\ Len(wal) < MaxLog
    /\ \E d \in D : wal' = WalAppend(wal, d)
    /\ UNCHANGED <<pers, disk, dirty, waiters, recv, sent, nextWaiter, pcApply,
                   stopped, ret, handled, tocLog, lastApply>>
    /\ UNCHANGED nonConsVars

\* ConsensusState::set_unapplied_entries; an error ends the driver
SetUnappliedEntries ==
    /\ ~stopped /\ pcApply = "idle"
    /\ LET first == IF pers.progress.has THEN pers.progress.last + 1 ELSE 1 IN
       \E last \in first..WalLastIndex(wal), ok \in BOOLEAN :
          IF ok
          THEN /\ pers' = [pers EXCEPT !.progress = NewProgress(first, last)]
               /\ disk' = pers'
               /\ dirty' = FALSE
               /\ UNCHANGED stopped
          ELSE /\ stopped' = TRUE
               /\ UNCHANGED <<pers, disk, dirty>>
    /\ ret' = "none" /\ handled' = <<>> /\ tocLog' = <<>>
    /\ lastApply' = NoApply
    /\ UNCHANGED <<wal, waiters, recv, sent, nextWaiter, pcApply>>
    /\ UNCHANGED nonConsVars

\* apply_entries, lines 305-311: save_if_dirty, then enter the loop
ApplyEntriesBegin ==
    /\ ~stopped /\ pcApply = "idle"
    /\ \E ok \in BOOLEAN :
          IF dirty /\ ~ok
          THEN /\ ret' = "true" /\ stopped' = TRUE
               /\ UNCHANGED <<pcApply, disk, dirty>>
          ELSE /\ ret' = "none" /\ pcApply' = "loop"
               /\ disk' = IF dirty THEN pers ELSE disk
               /\ dirty' = FALSE
               /\ UNCHANGED stopped
    /\ handled' = <<>> /\ tocLog' = <<>> /\ lastApply' = NoApply
    /\ UNCHANGED <<wal, pers, waiters, recv, sent, nextWaiter>>
    /\ UNCHANGED nonConsVars

\* lines 376-382: leave with true, or entry_applied and go round again; p, d
\* and dy are the persistent state as the iteration left it
FinishIteration(i, stop, ok, p, d, dy) ==
    IF stop \/ ~ok
    THEN /\ pers' = p /\ disk' = d /\ dirty' = dy
         /\ pcApply' = "idle" /\ ret' = "true" /\ stopped' = TRUE
         /\ UNCHANGED handled
    ELSE /\ pers' = [p EXCEPT !.progress = Applied(p.progress)]
         /\ disk' = pers' /\ dirty' = FALSE
         /\ handled' = Append(handled, i)
         /\ UNCHANGED <<pcApply, ret, stopped>>

\* lines 314-318: the queue is empty, break
ApplyLoopDone ==
    /\ pcApply = "loop"
    /\ UnappliedIndex(pers) = NoneIdx
    /\ pcApply' = "idle" /\ ret' = "false"
    /\ lastApply' = [NoApply EXCEPT !.kind = "Done"]
    /\ UNCHANGED <<wal, pers, disk, dirty, waiters, recv, sent, nextWaiter,
                   stopped, handled, tocLog>>
    /\ UNCHANGED nonConsVars

\* lines 320-326: the WAL cannot deliver the entry (no such entry, or the read
\* fails), break
ApplyWalReadFailed ==
    /\ pcApply = "loop"
    /\ UnappliedIndex(pers) # NoneIdx
    /\ pcApply' = "idle" /\ ret' = "false"
    /\ lastApply' = [NoApply EXCEPT !.kind = "WalError", !.index = UnappliedIndex(pers)]
    /\ UNCHANGED <<wal, pers, disk, dirty, waiters, recv, sent, nextWaiter,
                   stopped, handled, tocLog>>
    /\ UNCHANGED nonConsVars

\* lines 327-329: an empty entry
ApplyEmptyEntry ==
    /\ pcApply = "loop"
    /\ LET i == UnappliedIndex(pers) IN
       /\ WalHasEntry(wal, i)
       /\ WalEntry(wal, i).data.kind = "Empty"
       /\ \E ok \in BOOLEAN :
             /\ FinishIteration(i, FALSE, ok, pers, disk, dirty)
             /\ lastApply' = [NoApply EXCEPT !.kind = "Empty", !.index = i,
                                              !.saveFailed = ~ok]
    /\ UNCHANGED <<wal, waiters, recv, sent, nextWaiter, tocLog>>
    /\ UNCHANGED nonConsVars

\* lines 332-352 with apply_normal_entry (387-409); `result` is what
\* toc.perform_collection_meta_op returns
ApplyNormalEntry ==
    /\ pcApply = "loop"
    /\ LET i == UnappliedIndex(pers) IN
       /\ WalHasEntry(wal, i)
       /\ WalEntry(wal, i).data.kind = "Normal"
       /\ \E result \in OpResults, ok \in BOOLEAN :
            LET op == WalEntry(wal, i).data.op
                w == waiters[op]
            IN  /\ waiters' = WaitersAfterRemove(waiters, op)
                /\ recv' = RecvAfterSend(recv, w, result)
                /\ sent' = SentAfterSend(sent, w, result)
                /\ tocLog' = Append(tocLog, [index |-> i, op |-> op,
                                             nHandled |-> Len(handled)])
                /\ FinishIteration(i, StopOnResult(result), ok, pers, disk, dirty)
                /\ lastApply' = [index |-> i, kind |-> "Normal", op |-> op,
                                 result |-> result, waiter |-> w,
                                 saveFailed |-> (~StopOnResult(result) /\ ~ok),
                                 io |-> "none"]
    /\ UNCHANGED <<wal, nextWaiter>>
    /\ UNCHANGED nonConsVars

\* lines 370-373: an entry of another type
ApplyUnsupportedEntry ==
    /\ pcApply = "loop"
    /\ LET i == UnappliedIndex(pers) IN
       /\ WalHasEntry(wal, i)
       /\ WalEntry(wal, i).data.kind = "Unsupported"
       /\ FinishIteration(i, TRUE, TRUE, pers, disk, dirty)
       /\ lastApply' = [NoApply EXCEPT !.kind = "Unsupported", !.index = i]
    /\ UNCHANGED <<wal, waiters, recv, sent, nextWaiter, tocLog>>
    /\ UNCHANGED nonConsVars

\* lines 258-287: which branch an AddLearnerNode change takes on the context of
\* its entry: the URI parsed, the context is empty, or neither
MutEmptyContextIsError(ctx) == IF ctx = "uri" THEN "add" ELSE "error"
AddLearnerBranch(ctx) ==
    CASE ctx = "uri" -> "add"
      [] ctx = "empty" -> "outdated"
      [] OTHER -> "error"

\* apply_conf_change_entry (229-291) with on_peer_remove (202-227), add_peer
\* and remove_peer (458-469), up to its first failure `fail`; tocRes is what
\* toc.remove_peer returns.  The outcome: the persistent state, whether
\* apply_entries leaves with true, and the waiter key that gets `report`.
ConfChangeOutcome(p, d, dy, e, fail, tocRes) ==
    LET p1 == [p EXCEPT !.conf = ConfStateAfter(p.conf, e)]
        halt(pp, dd, dirt) ==
            [p |-> pp, d |-> dd, dy |-> dirt, stop |-> TRUE, key |-> NoOp, report |-> "-"]
        go(pp, stop, key, report) ==
            [p |-> pp, d |-> pp, dy |-> FALSE, stop |-> stop, key |-> key, report |-> report]
    IN  CASE fail \in {"raft", "saveConf"} -> halt(p, d, dy)
          [] fail \notin {"raft", "saveConf"} /\ e.change = "AddNode" ->
                go(p1, FALSE, NoOp, "-")
          [] fail \notin {"raft", "saveConf"} /\ e.change = "RemoveNode" ->
                LET p2 == [p1 EXCEPT !.peers = PeersAfterRemove(p1.peers, e.node)]
                    key == [type |-> "RemovePeer", arg |-> e.node]
                IN  CASE tocRes \in ServiceErrors -> halt(p1, p1, FALSE)
                      [] tocRes \in UserErrors -> go(p1, FALSE, key, tocRes)
                      [] OTHER -> IF fail = "savePeers"
                                  THEN halt(p2, p1, TRUE)
                                  ELSE go(p2, e.node = ThisPeer, key, "OkTrue")
          [] OTHER ->
                CASE AddLearnerBranch(e.ctx) = "add" ->
                        IF fail = "savePeers"
                        THEN halt(p1, p1, FALSE)
                        ELSE go([p1 EXCEPT !.peers = p1.peers \cup {e.node}], FALSE,
                                [type |-> "AddPeer", arg |-> e.node], "OkTrue")
                  [] AddLearnerBranch(e.ctx) = "outdated" -> go(p1, FALSE, NoOp, "-")
                  [] OTHER -> halt(p1, p1, FALSE)

\* the step of apply_conf_change_entry that returned its error through `?`:
\* raw_node.apply_conf_change (236), apply_state_update (238-240), the save of
\* remove_peer (468) or of add_peer (263)
ConfChangeFailure(e, fail, tocRes) ==
    CASE fail \in {"raft", "saveConf"} -> fail
      [] /\ fail = "savePeers"
         /\ \/ e.change = "RemoveNode" /\ tocRes = "OkTrue"
            \/ e.change = "AddLearnerNode" /\ e.ctx = "uri" -> "savePeers"
      [] OTHER -> "none"

\* lines 353-369
ApplyConfChangeEntry ==
    /\ pcApply = "loop"
    /\ LET i == UnappliedIndex(pers) IN
       /\ WalHasEntry(wal, i)
       /\ WalEntry(wal, i).data.kind = "ConfChange"
       /\ \E fail \in {"none", "raft", "saveConf", "savePeers", "saveCursor"},
             tocRes \in {"OkTrue"} \cup UserErrors \cup ServiceErrors :
            LET o == ConfChangeOutcome(pers, disk, dirty, WalEntry(wal, i).data, fail, tocRes)
                w == IF o.key = NoOp THEN NoWaiter ELSE waiters[o.key]
            IN  /\ waiters' = IF o.key = NoOp THEN waiters
                              ELSE WaitersAfterRemove(waiters, o.key)
                /\ recv' = RecvAfterSend(recv, w, o.report)
                /\ sent' = SentAfterSend(sent, w, o.report)
                /\ FinishIteration(i, o.stop, fail # "saveCursor", o.p, o.d, o.dy)
                /\ lastApply' = [index |-> i, kind |-> "ConfChange", op |-> o.key,
                                 result |-> o.report, waiter |-> w,
                                 saveFailed |-> (~o.stop /\ fail = "saveCursor"),
                                 io |-> ConfChangeFailure(WalEntry(wal, i).data,
                                                          fail, tocRes)]
    /\ UNCHANGED <<wal, nextWaiter, tocLog>>
    /\ UNCHANGED nonConsVars

(***************************************************************************)
(* The callers that wait for an operation to be applied.                   *)
(***************************************************************************)
\* propose_consensus_op_with_await, lines 544-549 (561-566 for the Nop): under
\* the waiter lock, send the operation to the driver and insert the one-shot
\* sender; a sender already stored under an equal operation is dropped
WaiterInsert(op) ==
    LET w == nextWaiter + 1
        old == waiters[op]
        r1 == IF old # NoWaiter /\ recv[old] = "waiting"
              THEN [recv EXCEPT ![old] = "SenderDropped"] ELSE recv
    IN  /\ waiters' = [waiters EXCEPT ![op] = w]
        /\ recv' = [r1 EXCEPT ![w] = "waiting"]
        /\ nextWaiter' = w

\* a caller whose wait for the leader is over registers for an operation of O
RegisterWaiterOf(O) ==
    /\ nextWaiter < MaxWaiters
    /\ \E op \in O : WaiterInsert(op)
    /\ UNCHANGED <<wal, pers, disk, dirty, sent, pcApply, stopped, ret,
                   handled, tocLog, lastApply>>
    /\ UNCHANGED nonConsVars

\* await_receiver, lines 479-494: the timeout elapses and the receiver is dropped
WaiterTimeout ==
    /\ \E w \in 1..MaxWaiters :
          /\ recv[w] = "waiting"
          /\ recv' = [recv EXCEPT ![w] = "TimedOut"]
    /\ UNCHANGED <<wal, pers, disk, dirty, waiters, sent, nextWaiter, pcApply,
                   stopped, ret, handled, tocLog, lastApply>>
    /\ UNCHANGED nonConsVars


(***************************************************************************)
(* TableOfContent: names and the alias store.                              *)
(***************************************************************************)
\* "test", "test_alias", "test_alias2", "test_alias3" of test_alias_operation
Names == {"c", "a", "a2", "a3"}

\* the names that collections are created under
CollNames == {"c", "a"}

NoName == "-"

NoAliases == [n \in Names |-> NoName]

\* Collections::validate_collection_exists, as called by the ToC
ValidateCollectionExists(cs, n) == IF n \in cs THEN "Ok" ELSE "NotFound"

\* Collections::validate_collection_not_exists, as called by the ToC
ValidateCollectionNotExists(cs, n) == IF n \in cs THEN "BadInput" ELSE "Ok"

(***************************************************************************)
(* AliasPersistence (content_manager/alias_mapping.rs, not among the       *)
(* source files; modelled from the specification, sections 3 and 4.I).     *)
(***************************************************************************)
AliasGet(al, n) == al[n]

AliasInsert(al, alias, coll) == [al EXCEPT ![alias] = coll]

AliasRemove(al, alias) == [al EXCEPT ![alias] = NoName]

AliasRename(al, old, new) == [[al EXCEPT ![old] = NoName] EXCEPT ![new] = al[old]]

\* TableOfContent::resolve_name: the alias, else the name itself, validated
ResolveName(cs, al, n) ==
    LET resolved == IF AliasGet(al, n) = NoName THEN n ELSE AliasGet(al, n)
    IN  IF ValidateCollectionExists(cs, resolved) = "Ok" THEN resolved ELSE "NotFound"

\* TableOfContent::get_collection, run alone: the collection or NotFound
GetCollection(cs, al, n) == ResolveName(cs, al, n)

(***************************************************************************)
(* update_aliases: one action of the batch.  The result is the error or    *)
(* "Ok", and the alias map the action leaves.                              *)
(***************************************************************************)
AliasActions ==
    {[kind |-> "CreateAlias", coll |-> c, alias |-> n, new |-> NoName] :
        c \in CollNames, n \in Names}
    \cup {[kind |-> "DeleteAlias", coll |-> NoName, alias |-> n, new |-> NoName] :
            n \in Names}
    \cup {[kind |-> "RenameAlias", coll |-> NoName, alias |-> n, new |-> m] :
            n \in Names, m \in Names}

\* lines 475-490
CreateAliasArm(cs, al, act) ==
    IF ValidateCollectionExists(cs, act.coll) # "Ok"
    THEN [res |-> "NotFound", al |-> al]
    ELSE IF ValidateCollectionNotExists(cs, act.alias) # "Ok"
         THEN [res |-> "BadInput", al |-> al]
         ELSE [res |-> "Ok", al |-> AliasInsert(al, act.alias, act.coll)]

\* lines 491-495
MutDeleteAliasNoop(al, act) == [res |-> "Ok", al |-> al]
DeleteAliasArm(al, act) == [res |-> "Ok", al |-> AliasRemove(al, act.alias)]

\* lines 496-504; the store refuses to rename an alias it does not hold
RenameAliasArm(al, act) ==
    IF AliasGet(al, act.alias) = NoName
    THEN [res |-> "NotFound", al |-> al]
    ELSE [res |-> "Ok", al |-> AliasRename(al, act.alias, act.new)]

AliasActionOutcome(cs, al, act) ==
    CASE act.kind = "CreateAlias" -> CreateAliasArm(cs, al, act)
      [] act.kind = "DeleteAlias" -> DeleteAliasArm(al, act)
      [] OTHER -> RenameAliasArm(al, act)

(***************************************************************************)
(* The catalog lock and the alias store's lock (tokio::sync::RwLock: the   *)
(* waiters are served first come first served; a guard is not re-entrant). *)
(***************************************************************************)
Readers == {"r1", "r2"}

MetaThread == "meta"

\* RwLock::read / RwLock::write on self.collections: join the queue
CatRequest(q, proc, mode) == Append(q, [proc |-> proc, mode |-> mode])

\* whether the request at the head of the queue can be served
CatGrantable(req) ==
    IF req.mode = "read"
    THEN ~catWriter
    ELSE ~catWriter /\ \A r \in Readers : catHeld[r] = 0

\* the batch handled last has some but not all of its actions applied
BatchPartial == batchApplied > 0 /\ batchApplied < batchLen

NoSeen == [alias |-> NoName, prefix |-> FALSE, during |-> FALSE, result |-> "-"]

\* data: the snapshot that apply_collections_snapshot was called with, kept
\* when the call returned Ok
NoSnapshotData == [collections |-> {}, aliases |-> NoAliases]

NoMeta == [kind |-> "None", res |-> "-", aliasIsColl |-> FALSE, data |-> NoSnapshotData]

\* the state of TableOfContent::new over an empty storage directory
TocInit ==
    /\ collections = {}
    /\ aliases = NoAliases
    /\ pcToc = "idle"
    /\ batchLen = 0 /\ batchApplied = 0
    /\ catWriter = FALSE
    /\ catHeld = [r \in Readers |-> 0]
    /\ catQueue = <<>>
    /\ aliasWriter = FALSE
    /\ pcRead = [r \in Readers |-> "idle"]
    /\ readName = [r \in Readers |-> NoName]
    /\ readSeen = [r \in Readers |-> NoSeen]
    /\ lastMeta = NoMeta
    /\ scenario = 0

\* the state of TableOfContent::new (lines 76-152) over a storage directory
\* that holds the collection "c"
TocLoadedInit ==
    /\ collections = {"c"}
    /\ aliases = NoAliases
    /\ pcToc = "idle"
    /\ batchLen = 0 /\ batchApplied = 0
    /\ catWriter = FALSE
    /\ catHeld = [r \in Readers |-> 0]
    /\ catQueue = <<>>
    /\ aliasWriter = FALSE
    /\ pcRead = [r \in Readers |-> "idle"]
    /\ readName = [r \in Readers |-> NoName]
    /\ readSeen = [r \in Readers |-> NoSeen]
    /\ lastMeta = NoMeta
    /\ scenario = 0

(***************************************************************************)
(* The meta operations of the ToC.  perform_collection_meta_op runs them   *)
(* one at a time, on the thread that applies the consensus entries.        *)
(***************************************************************************)
\* create_collection, lines 230-343, with no reader about: the directories may
\* fail to be created (dirFail), and set_shard_replica_state of on_peer_created
\* may fail after the collection was inserted (notifyFail)
CreateCollection ==
    /\ pcToc = "idle" /\ catQueue = <<>> /\ \A r \in Readers : catHeld[r] = 0
    /\ \E n \in CollNames, io \in {"ok", "dirFail", "notifyFail"} :
          LET res == IF ValidateCollectionNotExists(collections, n) # "Ok"
                     THEN "BadInput"
                     ELSE IF io = "ok" THEN "Ok" ELSE "ServiceErr"
          IN  /\ collections' = IF res = "Ok" \/ (res = "ServiceErr" /\ io = "notifyFail")
                                THEN collections \cup {n} ELSE collections
              /\ lastMeta' = [NoMeta EXCEPT !.kind = "CreateCollection", !.res = res]
    /\ scenario' = 0
    /\ UNCHANGED <<aliases, pcToc, batchLen, batchApplied, catWriter, catHeld,
                   catQueue, aliasWriter, pcRead, readName, readSeen>>
    /\ UNCHANGED nonTocVars

\* delete_collection, lines 447-462, with no reader about; remove_dir_all may
\* fail after the removal
DeleteCollection ==
    /\ pcToc = "idle" /\ catQueue = <<>> /\ \A r \in Readers : catHeld[r] = 0
    /\ \E n \in CollNames, io \in BOOLEAN :
          /\ collections' = collections \ {n}
          /\ lastMeta' = [NoMeta EXCEPT !.kind = "DeleteCollection",
                            !.res = IF n \notin collections THEN "OkFalse"
                                    ELSE IF io THEN "OkTrue" ELSE "ServiceErr"]
    /\ scenario' = 0
    /\ UNCHANGED <<aliases, pcToc, batchLen, batchApplied, catWriter, catHeld,
                   catQueue, aliasWriter, pcRead, readName, readSeen>>
    /\ UNCHANGED nonTocVars

\* update_aliases, line 471: ask for the catalog write lock
UpdateAliasesRequest ==
    /\ pcToc = "idle"
    /\ \E n \in 1..MaxBatch : batchLen' = n
    /\ batchApplied' = 0
    /\ pcToc' = "wantCat"
    /\ catQueue' = CatRequest(catQueue, MetaThread, "write")
    /\ readSeen' = [r \in Readers |->
                      IF pcRead[r] \in {"waitOuter", "haveOuter"}
                      THEN [readSeen[r] EXCEPT !.during = TRUE] ELSE readSeen[r]]
    /\ scenario' = IF scenario = 1 /\ batchLen' = 3 THEN 1 ELSE 0
    /\ UNCHANGED <<collections, aliases, catWriter, catHeld, aliasWriter, pcRead,
                   readName, lastMeta>>
    /\ UNCHANGED nonTocVars

\* the scenario of test_alias_operation, advanced by an applied action
ScenarioAfter(sc, act, len) ==
    CASE sc = 0 /\ len = 1 /\ act.kind = "CreateAlias" /\ act.coll = "c"
              /\ act.alias = "a" -> 6
      [] sc = 1 /\ act.kind = "CreateAlias" /\ act.coll = "c" /\ act.alias = "a2" -> 2
      [] sc = 2 /\ act.kind = "DeleteAlias" /\ act.alias = "a" -> 3
      [] sc = 3 /\ act.kind = "RenameAlias" /\ act.alias = "a2" /\ act.new = "a3" -> 4
      [] OTHER -> 0

\* update_aliases, lines 473-505: the next action of the batch; an error
\* returns at once (the operator ?), which drops both guards
AliasActionStep ==
    /\ pcToc = "inBatch" /\ batchApplied < batchLen
    /\ \E act \in AliasActions :
          LET o == AliasActionOutcome(collections, aliases, act) IN
          /\ aliases' = o.al
          /\ lastMeta' = [kind |-> act.kind, res |-> o.res,
                          aliasIsColl |-> act.alias \in collections,
                          data |-> NoSnapshotData]
          /\ IF o.res = "Ok"
             THEN /\ batchApplied' = batchApplied + 1
                  /\ scenario' = ScenarioAfter(scenario, act, batchLen)
                  /\ UNCHANGED <<pcToc, catWriter, aliasWriter>>
             ELSE /\ pcToc' = "idle" /\ catWriter' = FALSE /\ aliasWriter' = FALSE
                  /\ scenario' = 0
                  /\ UNCHANGED batchApplied
    /\ UNCHANGED <<collections, batchLen, catHeld, catQueue, pcRead, readName, readSeen>>
    /\ UNCHANGED nonTocVars

\* update_aliases, line 507: Ok(true), both guards dropped
UpdateAliasesReturn ==
    /\ pcToc = "inBatch" /\ batchApplied = batchLen
    /\ pcToc' = "idle" /\ catWriter' = FALSE /\ aliasWriter' = FALSE
    /\ scenario' = CASE scenario = 6 -> 1 [] scenario = 4 -> 5 [] OTHER -> 0
    /\ lastMeta' = [NoMeta EXCEPT !.kind = "ChangeAliases", !.res = "Ok"]
    /\ UNCHANGED <<collections, aliases, batchLen, batchApplied, catHeld, catQueue,
                   pcRead, readName, readSeen>>
    /\ UNCHANGED nonTocVars

\* a state of the catalog that keeps the invariants of the data model: no alias
\* is named as a collection, and every alias leads to a collection
WellFormed(cs, al) ==
    \A n \in Names : al[n] # NoName => (n \notin cs /\ al[n] \in cs)

\* CollectionsSnapshot: what collections_snapshot (lines 939-948) of a peer in
\* a well-formed state hands out
CollectionsSnapshots ==
    {[collections |-> cs, aliases |-> al] :
        cs \in SUBSET CollNames, al \in [Names -> CollNames \cup {NoName}]}

\* lines 1027-1031: AliasPersistence::apply_state replaces the alias map
MutKeepAliases(al, data) == al
AliasesAfterSnapshot(al, data) == data.aliases

\* apply_collections_snapshot, lines 950-1034, from the catalog write lock on.
\* The first loop inserts the collections that are missing; a failure of the
\* file system or of Collection::new ends the call with those made so far. A
\* local collection that the snapshot lacks is handed to delete_collection,
\* which waits for the catalog write lock that this call holds. Else the alias
\* store takes the snapshot's aliases. io: "ok", or "fail" with the collections
\* in made created before the error.
CollectionsSnapshotEffect(data, io, made) ==
    /\ IF io = "fail"
       THEN /\ collections' = collections \cup made
            /\ lastMeta' = [NoMeta EXCEPT !.kind = "ApplySnapshot", !.res = "ServiceErr"]
            /\ UNCHANGED <<aliases, pcToc, catWriter, catQueue>>
       ELSE /\ collections' = collections \cup data.collections
            /\ IF collections \subseteq data.collections
               THEN /\ aliases' = AliasesAfterSnapshot(aliases, data)
                    /\ lastMeta' = [NoMeta EXCEPT !.kind = "ApplySnapshot", !.res = "Ok",
                                                !.data = data]
                    /\ UNCHANGED <<pcToc, catWriter, catQueue>>
               ELSE /\ pcToc' = "hung" /\ catWriter' = TRUE
                    /\ catQueue' = CatRequest(catQueue, MetaThread, "write")
                    /\ lastMeta' = [NoMeta EXCEPT !.kind = "ApplySnapshot", !.res = "-"]
                    /\ UNCHANGED aliases
    /\ scenario' = 0
    /\ UNCHANGED <<batchLen, batchApplied, catHeld, aliasWriter, pcRead, readName,
                   readSeen>>

\* the outcomes of the file system during apply_collections_snapshot
SnapshotIo(cs, data) ==
    {[io |-> "ok", made |-> data.collections \ cs]}
        \cup {[io |-> "fail", made |-> m] : m \in SUBSET (data.collections \ cs)}

\* apply_collections_snapshot, with no reader about
ApplyCollectionsSnapshot ==
    /\ pcToc = "idle" /\ catQueue = <<>> /\ \A r \in Readers : catHeld[r] = 0
    /\ \E data \in CollectionsSnapshots :
          /\ WellFormed(data.collections, data.aliases)
          /\ \E o \in SnapshotIo(collections, data) :
                CollectionsSnapshotEffect(data, o.io, o.made)
    /\ UNCHANGED nonTocVars

(***************************************************************************)
(* get_collection (lines 678-688) with resolve_name (215-228), run by the  *)
(* request handlers next to the meta thread.                               *)
(***************************************************************************)
\* line 682: ask for the catalog read lock
ReadRequest ==
    /\ \E r \in Readers, n \in Names :
          /\ pcRead[r] = "idle"
          /\ pcRead' = [pcRead EXCEPT ![r] = "waitOuter"]
          /\ readName' = [readName EXCEPT ![r] = n]
          /\ readSeen' = [readSeen EXCEPT ![r] =
                            [NoSeen EXCEPT !.during = pcToc \in {"wantCat", "inBatch"}]]
          /\ catQueue' = CatRequest(catQueue, r, "read")
    /\ UNCHANGED <<collections, aliases, pcToc, batchLen, batchApplied, catWriter,
                   catHeld, aliasWriter, lastMeta, scenario>>
    /\ UNCHANGED nonTocVars

\* the lock serves the request at the head of its queue.  The meta thread goes
\* on to take the alias store's write lock (line 472); a reader that waited
\* inside resolve_name (lines 222-226) validates the name, drops that guard and
\* returns: with the collection under its first guard, or with NotFound
CatalogGrant ==
    /\ catQueue # <<>>
    /\ LET req == Head(catQueue) IN
       /\ CatGrantable(req)
       /\ catQueue' = Tail(catQueue)
       /\ IF req.proc = MetaThread
          THEN /\ pcToc = "wantCat" /\ ~aliasWriter
               /\ pcToc' = "inBatch" /\ catWriter' = TRUE /\ aliasWriter' = TRUE
               /\ UNCHANGED <<catHeld, pcRead, readSeen>>
          ELSE LET r == req.proc
                   resolved == IF readSeen[r].alias = NoName THEN readName[r]
                               ELSE readSeen[r].alias
                   found == ValidateCollectionExists(collections, resolved) = "Ok"
               IN  /\ pcRead[r] \in {"waitOuter", "waitInner"}
                   /\ IF pcRead[r] = "waitOuter"
                      THEN /\ catHeld' = [catHeld EXCEPT ![r] = 1]
                           /\ pcRead' = [pcRead EXCEPT ![r] = "haveOuter"]
                           /\ UNCHANGED readSeen
                      ELSE /\ catHeld' = [catHeld EXCEPT ![r] = IF found THEN 1 ELSE 0]
                           /\ pcRead' = [pcRead EXCEPT ![r] =
                                           IF found THEN "holding" ELSE "idle"]
                           /\ readSeen' = [readSeen EXCEPT ![r] =
                                             IF found
                                             THEN [readSeen[r] EXCEPT !.result = resolved]
                                             ELSE NoSeen]
                   /\ UNCHANGED <<pcToc, catWriter, aliasWriter>>
    /\ UNCHANGED <<collections, aliases, batchLen, batchApplied, readName, lastMeta,
                   scenario>>
    /\ UNCHANGED nonTocVars

\* resolve_name, lines 216-222: read the alias under the alias store's read
\* lock, drop it, and ask for the catalog read lock again
ReadAlias ==
    /\ ~aliasWriter
    /\ \E r \in Readers :
          /\ pcRead[r] = "haveOuter"
          /\ readSeen' = [readSeen EXCEPT ![r].alias = AliasGet(aliases, readName[r]),
                                          ![r].prefix = BatchPartial]
          /\ pcRead' = [pcRead EXCEPT ![r] = "waitInner"]
          /\ catQueue' = CatRequest(catQueue, r, "read")
    /\ UNCHANGED <<collections, aliases, pcToc, batchLen, batchApplied, catWriter,
                   catHeld, aliasWriter, readName, lastMeta, scenario>>
    /\ UNCHANGED nonTocVars

\* the caller of get_collection drops the guard it was given
ReadRelease ==
    /\ \E r \in Readers :
          /\ pcRead[r] = "holding"
          /\ pcRead' = [pcRead EXCEPT ![r] = "idle"]
          /\ catHeld' = [catHeld EXCEPT ![r] = 0]
          /\ readSeen' = [readSeen EXCEPT ![r] = NoSeen]
    /\ UNCHANGED <<collections, aliases, pcToc, batchLen, batchApplied, catWriter,
                   catQueue, aliasWriter, readName, lastMeta, scenario>>
    /\ UNCHANGED nonTocVars

(***************************************************************************)
(* The write gate: TableOfContent::update (lines 902-924), set_locks and   *)
(* check_write_lock, and PayloadOps::is_write_operation.                   *)
(***************************************************************************)
PayloadVariants ==
    {"SetPayload", "SetPayloadByFilter", "DeletePayload", "ClearPayload",
     "ClearPayloadByFilter"}

\* CollectionUpdateOperations.  The flag of a point operation or a field index
\* operation is decided in files that are not among the sources: it is part of
\* the operation here.
UpdateOps ==
    {[family |-> "payload", variant |-> v, write |-> FALSE] : v \in PayloadVariants}
    \cup {[family |-> f, variant |-> "-", write |-> w] :
            f \in {"point", "field_index"}, w \in BOOLEAN}

\* payload_ops.rs, lines 44-54
MutNoPayloadIsWrite(variant) == FALSE
PayloadIsWriteOperation(variant) ==
    CASE variant = "SetPayload" -> TRUE
      [] variant = "SetPayloadByFilter" -> TRUE
      [] variant = "DeletePayload" -> FALSE
      [] variant = "ClearPayload" -> FALSE
      [] OTHER -> FALSE

\* CollectionUpdateOperations::is_write_operation
IsWriteOperation(op) ==
    IF op.family = "payload" THEN PayloadIsWriteOperation(op.variant) ELSE op.write

\* shard_selection: None, or the shard a peer names
NoShard == "None"

ShardSelections == {NoShard, "shard0"}

NoUpdate == [name |-> NoName, op |-> [family |-> "-", variant |-> "-", write |-> FALSE],
             shard |-> NoShard, locked |-> FALSE, outcome |-> "-", before |-> 0,
             via |-> "-"]

GateInit ==
    /\ isWriteLocked = FALSE
    /\ collState = 0
    /\ lastUpdate = NoUpdate

\* set_locks, lines 1132-1136
SetLocks ==
    /\ \E b \in BOOLEAN : isWriteLocked' = b
    /\ UNCHANGED <<collState, lastUpdate>>
    /\ UNCHANGED nonGateVars

\* how update ends: lines 909-923
UpdateOutcome(found, shard, op, locked) ==
    IF ~found THEN "NotFound"
    ELSE IF shard # NoShard THEN "FromPeer"
    ELSE IF IsWriteOperation(op) /\ locked THEN "Locked"
    ELSE "FromClient"

\* TableOfContent::update
Update ==
    /\ \E n \in Names, op \in UpdateOps, shard \in ShardSelections :
          LET found == GetCollection(collections, aliases, n) # "NotFound"
              outcome == UpdateOutcome(found, shard, op, isWriteLocked)
              forwarded == outcome \in {"FromPeer", "FromClient"}
          IN  /\ forwarded => collState < MaxUpdates
              /\ collState' = IF forwarded THEN collState + 1 ELSE collState
              /\ lastUpdate' = [name |-> n, op |-> op, shard |-> shard,
                                locked |-> isWriteLocked, outcome |-> outcome,
                                before |-> collState, via |-> "update"]
    /\ UNCHANGED isWriteLocked
    /\ UNCHANGED nonGateVars

\* the write handlers of PointsInternalService (points_internal_api.rs)
InternalWriteHandlers ==
    {"upsert", "delete", "set_payload", "delete_payload", "clear_payload",
     "create_field_index", "delete_field_index", "sync"}

\* the shard_id field of an internal request: a shard, or left out
NoShardId == "absent"

ShardIdFields == {NoShardId, "shard0"}

\* the shard selection a handler passes on: every handler wraps its shard_id
\* in Some (lines 45, 60, 75, 90, 105, 123, 143; a field left out reads as the
\* default shard); sync passes its optional shard_id as it came (line 252)
HandlerShardSelection(handler, shardId) ==
    IF handler = "sync"
    THEN IF shardId = NoShardId THEN NoShard ELSE shardId
    ELSE "shard0"

\* the operations a handler builds
HandlerOps(handler) ==
    CASE handler \in {"upsert", "delete", "sync"} ->
            {o \in UpdateOps : o.family = "point"}
      [] handler = "set_payload" ->
            {o \in UpdateOps : o.variant \in {"SetPayload", "SetPayloadByFilter"}}
      [] handler = "delete_payload" -> {o \in UpdateOps : o.variant = "DeletePayload"}
      [] handler = "clear_payload" ->
            {o \in UpdateOps : o.variant \in {"ClearPayload", "ClearPayloadByFilter"}}
      [] OTHER -> {o \in UpdateOps : o.family = "field_index"}

\* a write that a peer sends through the internal API; points_common (not
\* among the source files) hands it to TableOfContent::update
InternalWrite ==
    /\ \E handler \in InternalWriteHandlers, shardId \in ShardIdFields, n \in Names :
       \E op \in HandlerOps(handler) :
          LET shard == HandlerShardSelection(handler, shardId)
              found == GetCollection(collections, aliases, n) # "NotFound"
              outcome == UpdateOutcome(found, shard, op, isWriteLocked)
              forwarded == outcome \in {"FromPeer", "FromClient"}
          IN  /\ forwarded => collState < MaxUpdates
              /\ collState' = IF forwarded THEN collState + 1 ELSE collState
              /\ lastUpdate' = [name |-> n, op |-> op, shard |-> shard,
                                locked |-> isWriteLocked, outcome |-> outcome,
                                before |-> collState, via |-> handler]
    /\ UNCHANGED isWriteLocked
    /\ UNCHANGED nonGateVars

GateNext ==
    \/ SetLocks
    \/ Update
    \/ InternalWrite

(***************************************************************************)
(* The segment contract (entry_point.rs, trait SegmentEntry).  The segment *)
(* that implements it is not among the source files; the version gate is   *)
(* modelled from the specification, sections 3 and 4.A.                    *)
(***************************************************************************)
PointIds == {1, 2}

PayloadKeys == {"k"}

NoVersion == 0

SegmentOps ==
    {"upsert_vector", "delete_point", "set_payload", "set_full_payload",
     "delete_payload", "clear_payload"}

NoPoint == [has |-> FALSE, version |-> NoVersion, payload |-> {}]

\* the version gate: the point has a version and op_num does not exceed it
MutVersionGateStrict(pv, opNum) == pv # NoVersion /\ opNum < pv
VersionGate(pv, opNum) == pv # NoVersion /\ opNum <= pv

\* what an operation that passed the gate does to its point; keep: whether
\* the version map keeps the version of a deleted point
PointAfter(pt, kind, opNum, pl, keep) ==
    CASE kind = "upsert_vector" ->
            [has |-> TRUE, version |-> opNum, payload |-> IF pt.has THEN pt.payload ELSE {}]
      [] kind = "delete_point" ->
            [has |-> FALSE, version |-> IF keep THEN opNum ELSE NoVersion, payload |-> {}]
      [] kind = "set_payload" -> [pt EXCEPT !.version = opNum, !.payload = pt.payload \cup pl]
      [] kind = "set_full_payload" -> [pt EXCEPT !.version = opNum, !.payload = pl]
      [] kind = "delete_payload" -> [pt EXCEPT !.version = opNum, !.payload = pt.payload \ pl]
      [] OTHER -> [pt EXCEPT !.version = opNum, !.payload = {}]

Max(a, b) == IF a >= b THEN a ELSE b

NoSegOp == [kind |-> "-", id |-> 0, opNum |-> 0, result |-> "-"]

SegInit ==
    /\ segVersion = 0
    /\ points = [id \in PointIds |-> NoPoint]
    /\ lastSegOp = NoSegOp

\* one mutating operation of the trait, lines 176-217
SegmentOperation ==
    /\ \E kind \in SegmentOps, id \in PointIds, opNum \in 1..MaxOpNum,
          pl \in SUBSET PayloadKeys, keep \in BOOLEAN :
          LET pt == points[id] IN
          IF VersionGate(pt.version, opNum)
          THEN /\ lastSegOp' = [kind |-> kind, id |-> id, opNum |-> opNum,
                                result |-> "OkFalse"]
               /\ UNCHANGED <<segVersion, points>>
          ELSE IF ~pt.has /\ kind # "upsert_vector"
          THEN /\ lastSegOp' = [kind |-> kind, id |-> id, opNum |-> opNum,
                                result |-> IF kind = "delete_point" THEN "OkFalse"
                                           ELSE "PointIdError"]
               /\ UNCHANGED <<segVersion, points>>
          ELSE /\ points' = [points EXCEPT ![id] = PointAfter(pt, kind, opNum, pl, keep)]
               /\ segVersion' = Max(segVersion, opNum)
               /\ lastSegOp' = [kind |-> kind, id |-> id, opNum |-> opNum,
                                result |-> "OkTrue"]
    /\ UNCHANGED nonSegVars

SegNext ==
    \/ SegmentOperation

(***************************************************************************)
(* ConsensusOpWal as the Storage trait reads it (consensus_wal.rs, not     *)
(* among the source files; modelled from the specification, sections 3     *)
(* and 4.G): an ordered log of entries with consecutive indices.           *)
(***************************************************************************)
\* max_size: None
NoLimit == 0 - 1

\* the limits on the size of an answer, an entry counting as one unit
MaxSizes == {NoLimit} \cup (0..2)

\* Option::None of first_entry and last_entry
NoEntry == [index |-> 0, term |-> 0]

Ok(v) == [err |-> "-", val |-> v]

Err(e) == [err |-> e, val |-> 0]

WalFirstEntry(l) == IF l = <<>> THEN NoEntry ELSE l[1]

WalLastEntry(l) == IF l = <<>> THEN NoEntry ELSE l[Len(l)]

\* entry(i): Compacted below the first entry, Unavailable above the last one;
\* a log without entries has none to offer
WalEntryAt(l, i) ==
    IF l = <<>> THEN Err("Unavailable")
    ELSE IF i < l[1].index THEN Err("Compacted")
    ELSE IF i > l[Len(l)].index THEN Err("Unavailable")
    ELSE Ok(l[i - l[1].index + 1])

\* the entries that fit into max, but one at least
MutWalLimitExact(ents, max) ==
    IF max = NoLimit \/ max >= Len(ents) THEN ents ELSE SubSeq(ents, 1, max)
WalLimit(ents, max) ==
    IF max = NoLimit \/ Len(ents) <= 1 \/ max >= Len(ents) THEN ents
    ELSE SubSeq(ents, 1, IF max < 1 THEN 1 ELSE max)

\* entries(low, high, max_size), called within the bounds of the log
WalEntries(l, low, high, max) ==
    IF low >= high THEN Ok(<<>>)
    ELSE Ok(WalLimit(SubSeq(l, low - l[1].index + 1, high - l[1].index), max))

\* append_entries: an entry with the index of a stored one replaces it and
\* what followed it
WalAppendEntries(l, ents) ==
    IF ents = <<>> THEN l
    ELSE SelectSeq(l, LAMBDA e : e.index < ents[1].index) \o ents

WalClear(l) == <<>>

(***************************************************************************)
(* impl Storage for ConsensusState, lines 590-665.                         *)
(***************************************************************************)
\* lines 626-632
FirstIndex(l, p) ==
    IF WalFirstEntry(l) # NoEntry THEN WalFirstEntry(l).index
    ELSE p.latest_snapshot_meta.index + 1

\* lines 634-640
LastIndex(l, p) ==
    IF WalLastEntry(l) # NoEntry THEN WalLastEntry(l).index
    ELSE p.latest_snapshot_meta.index

\* lines 617-624
Term(l, p, idx) ==
    IF idx = p.latest_snapshot_meta.index THEN Ok(p.latest_snapshot_meta.term)
    ELSE LET e == WalEntryAt(l, idx) IN
         IF e.err # "-" THEN Err(e.err) ELSE Ok(e.val.term)

\* lines 595-615
Entries(l, p, low, high, max) ==
    IF low < FirstIndex(l, p) THEN Err("Compacted")
    ELSE IF high > LastIndex(l, p) + 1 THEN Err("panic")
    ELSE WalEntries(l, low, high, max)

\* CollectionsSnapshot, as collections_snapshot (toc.rs, lines 939-948) fills it
CollectionsSnapshot(cs, al) == [collections |-> cs, aliases |-> al]

\* serde_cbor::to_vec of SnapshotData (line 651): the fields in their order
SnapshotDataToVec(d) ==
    <<d.collections_data.collections, d.collections_data.aliases, d.address_by_id>>

\* TryFrom<&[u8]> for SnapshotData, lines 59-65
SnapshotDataTryFrom(b) ==
    [collections_data |-> CollectionsSnapshot(b[1], b[2]), address_by_id |-> b[3]]

\* line 646
MutSnapshotAvailableStrict(commit, requestIndex) == commit > requestIndex
SnapshotAvailable(commit, requestIndex) == commit >= requestIndex

\* snapshot(request_index, _), lines 642-664, of a peer with the catalog cat
\* and the persistent state p
SnapshotResult(cat, p, requestIndex) ==
    IF SnapshotAvailable(p.hard_state.commit, requestIndex)
    THEN Ok([data |-> SnapshotDataToVec([collections_data |-> cat,
                                         address_by_id |-> p.peers]),
             metadata |-> [conf_state |-> p.conf,
                           index |-> p.hard_state.commit,
                           term |-> p.hard_state.term]])
    ELSE Err("SnapshotTemporarilyUnavailable")

(***************************************************************************)
(* Persistent (section 4.F of the specification).                          *)
(***************************************************************************)
\* apply_state_update: the clone is written first; the in-memory value is
\* swapped when the write succeeded.  saved: the write went through
MutSwapBeforeSave(p, d, new, saved) ==
    [pers |-> new, disk |-> IF saved THEN new ELSE d,
     res |-> IF saved THEN "Ok" ELSE "ServiceErr"]
ApplyStateUpdate(p, d, new, saved) ==
    IF saved THEN [pers |-> new, disk |-> new, res |-> "Ok"]
    ELSE [pers |-> p, disk |-> d, res |-> "ServiceErr"]

\* load_or_init of a directory that holds the file d
LoadOrInit(d) == d

\* update_from_snapshot: the persistent state is rewritten from the metadata
\* of the snapshot and takes the peer addresses that came with it
MutIgnoreSnapshotMeta(p, meta, addressById) == p
UpdateFromSnapshot(p, meta, addressById) ==
    [p EXCEPT !.latest_snapshot_meta = [index |-> meta.index, term |-> meta.term],
              !.conf = meta.conf_state,
              !.peers = addressById,
              !.hard_state = [term |-> Max(p.hard_state.term, meta.term),
                              commit |-> meta.index]]

(***************************************************************************)
(* The reference log of the tests (raft::storage::MemStorage, lines        *)
(* 862-923): entries in memory next to the metadata of the last snapshot.  *)
(***************************************************************************)
NewMemStorage == [entries |-> <<>>, snap |-> [index |-> 0, term |-> 0]]

MemFirstIndex(m) ==
    IF m.entries = <<>> THEN m.snap.index + 1 ELSE m.entries[1].index

MemLastIndex(m) ==
    IF m.entries = <<>> THEN m.snap.index ELSE m.entries[Len(m.entries)].index

MemTerm(m, idx) ==
    IF idx = m.snap.index THEN Ok(m.snap.term)
    ELSE IF idx < MemFirstIndex(m) THEN Err("Compacted")
    ELSE IF idx > MemLastIndex(m) THEN Err("Unavailable")
    ELSE Ok(m.entries[idx - MemFirstIndex(m) + 1].term)

\* raft::util::limit_size
MemLimitSize(ents, max) ==
    IF max = NoLimit \/ Len(ents) <= 1 \/ max >= Len(ents) THEN ents
    ELSE SubSeq(ents, 1, IF max < 1 THEN 1 ELSE max)

MemEntries(m, low, high, max) ==
    IF low < MemFirstIndex(m) THEN Err("Compacted")
    ELSE IF high > MemLastIndex(m) + 1 THEN Err("panic")
    ELSE IF low >= high THEN Ok(<<>>)
    ELSE Ok(MemLimitSize(SubSeq(m.entries, low - MemFirstIndex(m) + 1,
                                high - MemFirstIndex(m)), max))

MemAppend(m, ents) ==
    IF ents = <<>> THEN m
    ELSE [m EXCEPT !.entries =
              SelectSeq(m.entries, LAMBDA e : e.index < ents[1].index) \o ents]

MemApplySnapshot(m, meta) ==
    IF MemFirstIndex(m) > meta.index THEN m
    ELSE [entries |-> <<>>, snap |-> [index |-> meta.index, term |-> meta.term]]

(***************************************************************************)
(* The calls on the storage.                                               *)
(***************************************************************************)
NoSto == [op |-> "-", arg |-> <<>>, io |-> "ok", fresh |-> FALSE,
          src |-> NoSnapshotData, res |-> Ok(0)]

StoInit ==
    /\ raftLog = <<>>
    /\ mem = NewMemStorage
    /\ lastSto = NoSto

\* a node right after its first start
Fresh ==
    /\ raftLog = <<>> /\ pers = InitPersistent
    /\ collections = {} /\ aliases = NoAliases

\* the batches the driver may append: consecutive indices from i on, with
\* terms from T
EntryBatches(i, T) ==
    UNION {{[k \in 1..n |-> [index |-> i + k - 1, term |-> f[k]]] :
                f \in [1..n -> T]} : n \in 1..(MaxIndex + 1 - i)}

\* ConsensusState::append_entries, lines 581-583, of entries with terms from
\* T; the reference takes the same entries
StorageAppendEntriesOf(T) ==
    /\ pcToc = "idle"
    /\ \E i \in FirstIndex(raftLog, pers)..(LastIndex(raftLog, pers) + 1) :
        \E ents \in EntryBatches(i, T), io \in {"ok", "walFail"} :
          /\ raftLog' = IF io = "ok" THEN WalAppendEntries(raftLog, ents) ELSE raftLog
          /\ mem' = IF io = "ok" THEN MemAppend(mem, ents) ELSE mem
          /\ lastSto' = [NoSto EXCEPT !.op = "append_entries", !.io = io,
                            !.res = IF io = "ok" THEN Ok(0) ELSE Err("ServiceErr")]
    /\ UNCHANGED <<consVars, tocVars, gateVars, segVars, xferVars, propVars, otherVars>>

\* line 413
MutOutOfDateOrEqual(first, index) == first >= index
SnapshotOutOfDate(first, index) == first > index

\* the states of a peer that a snapshot is taken of: a catalog, and a hard
\* state whose term grows with the commit index
SnapshotSources ==
    {[cat |-> cat,
      pers |-> [InitPersistent EXCEPT
                   !.hard_state = [term |-> 1 + (c \div 2), commit |-> c]]] :
        cat \in {d \in CollectionsSnapshots :
                    /\ WellFormed(d.collections, d.aliases)
                    /\ "a" \in d.collections => "c" \in d.collections
                    /\ \A n \in Names \ {"a2"} : d.aliases[n] = NoName
                    /\ d.aliases["a2"] \in {NoName, "c"}},
        c \in 0..MaxIndex}

\* the sources of the tests, whose container holds no collections (lines 833-860)
NoCollectionsSources == {s \in SnapshotSources : s.cat = NoSnapshotData}

\* ConsensusState::apply_snapshot, lines 411-425, of the snapshot of a source
\* in S; io names the first step that fails.  The call is kept in lastSto with
\* the metadata of the snapshot and, on a fresh node, the catalog it was
\* taken of.
ApplySnapshotOf(S, IO) ==
    /\ pcToc = "idle" /\ catQueue = <<>> /\ \A r \in Readers : catHeld[r] = 0
    /\ \E src \in S :
        LET snap == SnapshotResult(src.cat, src.pers, src.pers.hard_state.commit).val
            meta == snap.metadata
            call == [NoSto EXCEPT !.op = "apply_snapshot",
                                  !.arg = [index |-> meta.index, term |-> meta.term],
                                  !.fresh = Fresh,
                                  !.src = IF Fresh THEN src.cat ELSE NoSnapshotData]
        IN  IF SnapshotOutOfDate(FirstIndex(raftLog, pers), meta.index)
            THEN /\ lastSto' = [call EXCEPT !.res = Err("Snapshot out of date")]
                 /\ UNCHANGED <<raftLog, mem, consVars, tocVars>>
            ELSE LET data == SnapshotDataTryFrom(snap.data) IN
                 \E io \in IO :
                 /\ \E o \in SnapshotIo(collections, data.collections_data) :
                      /\ (o.io = "fail") = (io = "tocFail")
                      /\ CollectionsSnapshotEffect(data.collections_data, o.io, o.made)
                 /\ IF lastMeta'.res # "Ok"
                    THEN /\ lastSto' = [call EXCEPT !.io = io,
                                           !.res = IF lastMeta'.res = "-" THEN Err("hung")
                                                   ELSE Err("ServiceErr")]
                         /\ UNCHANGED <<raftLog, mem, consVars>>
                    ELSE IF io = "walFail"
                    THEN /\ lastSto' = [call EXCEPT !.io = io, !.res = Err("ServiceErr")]
                         /\ UNCHANGED <<raftLog, mem, consVars>>
                    ELSE LET u == ApplyStateUpdate(pers, disk,
                                      UpdateFromSnapshot(pers, meta, data.address_by_id),
                                      io # "saveFail")
                         IN  /\ raftLog' = WalClear(raftLog)
                             /\ pers' = u.pers /\ disk' = u.disk
                             /\ mem' = IF u.res = "Ok" THEN MemApplySnapshot(mem, meta)
                                       ELSE mem
                             /\ lastSto' = [call EXCEPT !.io = io,
                                               !.res = IF u.res = "Ok" THEN Ok(0)
                                                       ELSE Err(u.res)]
                             /\ UNCHANGED <<wal, dirty, waiters, recv, sent, nextWaiter,
                                            pcApply, stopped, ret, handled, tocLog,
                                            lastApply>>
    /\ UNCHANGED <<gateVars, segVars, xferVars, propVars, otherVars>>

\* Storage::snapshot, lines 642-664
Snapshot ==
    /\ pcToc = "idle"
    /\ \E requestIndex \in 0..MaxIndex :
          lastSto' = [NoSto EXCEPT !.op = "snapshot", !.arg = requestIndex,
                         !.res = SnapshotResult(CollectionsSnapshot(collections, aliases),
                                                pers, requestIndex)]
    /\ UNCHANGED <<raftLog, mem, consVars, tocVars, gateVars, segVars, xferVars,
                   propVars, otherVars>>

\* Storage::first_index and Storage::last_index
QueryIndexes ==
    /\ lastSto' = [NoSto EXCEPT !.op = "indexes",
                      !.res = Ok(<<FirstIndex(raftLog, pers), LastIndex(raftLog, pers)>>)]
    /\ UNCHANGED <<raftLog, mem, consVars, tocVars, gateVars, segVars, xferVars,
                   propVars, otherVars>>

\* Storage::term
QueryTerm ==
    /\ \E idx \in 0..(MaxIndex + 1) :
          lastSto' = [NoSto EXCEPT !.op = "term", !.arg = idx,
                         !.res = Term(raftLog, pers, idx)]
    /\ UNCHANGED <<raftLog, mem, consVars, tocVars, gateVars, segVars, xferVars,
                   propVars, otherVars>>

\* Storage::entries, called as Raft calls it: high within the log
QueryEntries ==
    /\ \E low \in 0..(MaxIndex + 1), high \in 0..(LastIndex(raftLog, pers) + 1),
          max \in MaxSizes :
          lastSto' = [NoSto EXCEPT !.op = "entries", !.arg = <<low, high, max>>,
                         !.res = Entries(raftLog, pers, low, high, max)]
    /\ UNCHANGED <<raftLog, mem, consVars, tocVars, gateVars, segVars, xferVars,
                   propVars, otherVars>>

\* set_hard_state, set_commit_index and set_conf_state, lines 427-456, each
\* through apply_state_update
PersistentUpdates(p) ==
    {[p EXCEPT !.hard_state = hs] : hs \in [term : 0..MaxTerm, commit : 0..MaxIndex]}
      \cup {[p EXCEPT !.hard_state.commit = c] : c \in 0..MaxIndex}
      \cup {[p EXCEPT !.conf = cs] :
               cs \in {[voters |-> {ThisPeer}, learners |-> l] : l \in SUBSET (Peers \ {ThisPeer})}}

SetPersistentState ==
    /\ \E new \in PersistentUpdates(pers), saved \in BOOLEAN :
         LET u == ApplyStateUpdate(pers, disk, new, saved) IN
         /\ pers' = u.pers /\ disk' = u.disk
         /\ lastSto' = [NoSto EXCEPT !.op = "apply_state_update", !.arg = new,
                           !.io = IF saved THEN "ok" ELSE "saveFail",
                           !.res = IF u.res = "Ok" THEN Ok(0) ELSE Err(u.res)]
    /\ UNCHANGED <<wal, dirty, waiters, recv, sent, nextWaiter, pcApply, stopped, ret,
                   handled, tocLog, lastApply>>
    /\ UNCHANGED <<raftLog, mem, tocVars, gateVars, segVars, xferVars, propVars, otherVars>>

\* the process dies inside apply_state_update, before the write has gone
\* through, and starts again: load_or_init reads the file
CrashInStateUpdate ==
    /\ \E new \in PersistentUpdates(pers) :
         /\ pers' = LoadOrInit(disk)
         /\ lastSto' = [NoSto EXCEPT !.op = "crash", !.arg = new]
    /\ UNCHANGED <<wal, disk, dirty, waiters, recv, sent, nextWaiter, pcApply, stopped,
                   ret, handled, tocLog, lastApply>>
    /\ UNCHANGED <<raftLog, mem, tocVars, gateVars, segVars, xferVars, propVars, otherVars>>

StorageIo == {"ok", "tocFail", "walFail", "saveFail"}

\* entries of any term, as the tests generate them
StorageAppendEntries == StorageAppendEntriesOf(1..MaxTerm)

\* the leader of the current term replicates its entries
AppendCurrentTerm == StorageAppendEntriesOf({Max(1, pers.hard_state.term)})

\* a snapshot of any peer arrives
ApplySnapshot == ApplySnapshotOf(SnapshotSources, StorageIo)

\* a snapshot arrives as in the tests: no collections, no failing disk
InstallSnapshot == ApplySnapshotOf(NoCollectionsSources, {"ok"})

(***************************************************************************)
(* Shard transfers.  TableOfContent::handle_transfer (toc.rs, lines        *)
(* 594-676) over the replica set of shard 1 of the collection "c";         *)
(* validate_transfer and the collection's start, finish and abort are      *)
(* not among the source files and are modelled from the specification,     *)
(* sections 3 and 4.E.                                                     *)
(***************************************************************************)
XPeers == {"A", "B", "C"}

\* channel_service.id_to_address, lines 619-625: "C" has left or never joined
KnownPeers == {"A", "B"}

\* shard 1 exists; shard 2 does not
ShardIds == {1, 2}

ExistingShards == {1}

NoReplica == "None"

ReplicaStates == {"Active", "Dead", "Partial"}

\* ShardTransfer: (from, to, shard_id, method), from one peer to another; one
\* transfer stands for those of the shard that does not exist
ShardTransfers ==
    {t \in [shard_id : ShardIds, from : XPeers, to : XPeers, sync : BOOLEAN] :
        /\ t.from # t.to
        /\ t.shard_id \notin ExistingShards => (t.from = "A" /\ t.to = "B" /\ ~t.sync)}

NoTransfer == [shard_id |-> 0, from |-> "-", to |-> "-", sync |-> FALSE]

TransferKey(t) == <<t.shard_id, t.from, t.to>>

\* shards.get(&transfer.shard_id).map(|info| &info.replicas), line 626
NoShardState == [p \in {} |-> NoReplica]

ShardState(rs, shardId) == IF shardId \in ExistingShards THEN rs ELSE NoShardState

ReplicaOf(shardState, p) ==
    IF p \in DOMAIN shardState THEN shardState[p] ELSE NoReplica

\* validate_transfer: from must hold an Active replica, to must be a known
\* peer, and the key must not be the key of a live transfer
MutValidateWithoutKey(t, allPeers, shardState, current) ==
    IF ReplicaOf(shardState, t.from) # "Active" THEN "BadRequest"
    ELSE IF t.to \notin allPeers THEN "BadRequest"
    ELSE "Ok"
ValidateTransfer(t, allPeers, shardState, current) ==
    IF ReplicaOf(shardState, t.from) # "Active" THEN "BadRequest"
    ELSE IF t.to \notin allPeers THEN "BadRequest"
    ELSE IF \E c \in current : TransferKey(c) = TransferKey(t) THEN "BadRequest"
    ELSE "Ok"

\* Collection::start_shard_transfer: the transfer is live, the receiving
\* replica is Partial
StartShardTransfer(rs, ts, t) ==
    [replicas |-> [rs EXCEPT ![t.to] = "Partial"], transfers |-> ts \cup {t}]

\* Collection::finish_shard_transfer: the receiving replica becomes Active
FinishShardTransfer(rs, ts, t) ==
    IF t \in ts
    THEN [replicas |-> [rs EXCEPT ![t.to] = "Active"], transfers |-> ts \ {t}]
    ELSE [replicas |-> rs, transfers |-> ts]

\* Collection::abort_shard_transfer: a Partial receiving replica is Dead
AbortShardTransfer(rs, ts, t) ==
    IF t \in ts
    THEN [replicas |-> IF rs[t.to] = "Partial" THEN [rs EXCEPT ![t.to] = "Dead"] ELSE rs,
          transfers |-> ts \ {t}]
    ELSE [replicas |-> rs, transfers |-> ts]

\* started: the transfer this call made live; callbacks: on_finish and
\* on_failure were handed to the collection
NoXfer == [kind |-> "-", name |-> NoName, transfer |-> NoTransfer, res |-> "-",
           started |-> FALSE, callbacks |-> FALSE]

XferInit ==
    /\ replicas = [p \in KnownPeers |-> IF p = "A" THEN "Active" ELSE NoReplica]
    /\ transfers = {}
    /\ lastXfer = NoXfer

\* handle_transfer, lines 594-676, on a peer that takes part in consensus;
\* io = "fail": the collection fails to write the new state down
HandleTransfer ==
    /\ \E name \in {"c", "a"}, kind \in {"Start", "Finish", "Abort"} :
         IF GetCollection(collections, aliases, name) = "NotFound"
         THEN /\ lastXfer' = [NoXfer EXCEPT !.kind = kind, !.name = name,
                                            !.res = "NotFound"]
              /\ UNCHANGED <<replicas, transfers>>
         ELSE \E t \in ShardTransfers :
              LET call == [NoXfer EXCEPT !.kind = kind, !.name = name, !.transfer = t]
                  valid == ValidateTransfer(t, KnownPeers,
                                            ShardState(replicas, t.shard_id), transfers)
                  after == CASE kind = "Start" ->
                                    StartShardTransfer(replicas, transfers, t)
                             [] kind = "Finish" ->
                                    FinishShardTransfer(replicas, transfers, t)
                             [] OTHER -> AbortShardTransfer(replicas, transfers, t)
              IN  IF kind = "Start" /\ valid # "Ok"
                  THEN /\ lastXfer' = [call EXCEPT !.res = valid]
                       /\ UNCHANGED <<replicas, transfers>>
                  ELSE \E io \in {"ok", "fail"} :
                       IF io = "fail" \/ t.shard_id \notin ExistingShards
                       THEN /\ lastXfer' = [call EXCEPT !.res = "ServiceErr",
                                                         !.callbacks = (kind = "Start")]
                            /\ UNCHANGED <<replicas, transfers>>
                       ELSE /\ replicas' = after.replicas
                            /\ transfers' = after.transfers
                            /\ lastXfer' = [call EXCEPT !.res = "Ok",
                                                !.started = (kind = "Start"),
                                                !.callbacks = (kind = "Start")]
    /\ UNCHANGED <<consVars, tocVars, gateVars, segVars, stoVars, propVars, otherVars>>

\* set_shard_replica_state, lines 566-575: the replica of a peer gets a state
SetShardReplicaState ==
    /\ \E p \in KnownPeers, st \in ReplicaStates :
         /\ replicas' = [replicas EXCEPT ![p] = st]
         /\ lastXfer' = [NoXfer EXCEPT !.kind = "SetShardReplicaState"]
    /\ UNCHANGED transfers
    /\ UNCHANGED <<consVars, tocVars, gateVars, segVars, stoVars, propVars, otherVars>>

XferNext ==
    \/ HandleTransfer
    \/ SetShardReplicaState

(***************************************************************************)
(* Proposing: propose_consensus_op (lines 471-477) and                     *)
(* propose_consensus_op_with_await (lines 526-571).  Time is counted in    *)
(* ticks; WaitTicks of them make the timeout of a call.                    *)
(***************************************************************************)
PlainCallers == {"p"}

AwaitCallers == {"w"}

Callers == PlainCallers \cup AwaitCallers

NoProposal == [op |-> NoOp, confirm |-> FALSE]

PropInit ==
    /\ leaderReady = FALSE
    /\ pcPropose = [c \in Callers |-> "idle"]
    /\ proposeArg = [c \in Callers |-> NoProposal]
    /\ waitedFor = [c \in Callers |-> 0]
    /\ proposeChannel = <<>>
    /\ proposeWaiter = [c \in Callers |-> NoWaiter]
    /\ nopWaiter = [c \in Callers |-> NoWaiter]
    /\ proposeRes = [c \in Callers |-> "-"]

\* the capacity the proposal channel is said to have; main.rs line 118 makes
\* the channel with std::sync::mpsc::channel(), which takes no capacity
ChannelCapacity == 2

\* OperationSender::send: the operation goes to the driver, unless the driver
\* has gone and the channel is closed; the channel of main.rs line 118 is never
\* full
Send(ch, c, op, open) ==
    IF open THEN [channel |-> Append(ch, [by |-> c, op |-> op]), res |-> "Ok"]
    ELSE [channel |-> ch, res |-> "ServiceErr"]

\* line 475: await_ready() waits until the leader is established, however
\* long that takes
AwaitReadyReturns(ready, waited) == ready

\* lines 534-541: await_ready_for_timeout(wait_timeout) gives up when the
\* timeout has passed
AwaitReadyForTimeoutReturns(ready, waited) == ready \/ waited >= WaitTicks

\* the consensus driver (consensus.rs) has seen a leader
LeaderEstablished ==
    /\ ~leaderReady
    /\ leaderReady' = TRUE
    /\ UNCHANGED <<pcPropose, proposeArg, waitedFor, proposeChannel, proposeWaiter,
                   nopWaiter, proposeRes>>
    /\ UNCHANGED <<consVars, tocVars, gateVars, segVars, stoVars, xferVars, otherVars>>

\* time passes for the callers that wait for the leader
Tick ==
    /\ \E c \in Callers :
         /\ pcPropose[c] = "awaitLeader" /\ waitedFor[c] < WaitTicks
         /\ waitedFor' = [waitedFor EXCEPT ![c] = waitedFor[c] + 1]
    /\ UNCHANGED <<leaderReady, pcPropose, proposeArg, proposeChannel, proposeWaiter,
                   nopWaiter, proposeRes>>
    /\ UNCHANGED <<consVars, tocVars, gateVars, segVars, stoVars, xferVars, otherVars>>

\* a call of either function begins
ProposeCall ==
    /\ \E c \in Callers, op \in MetaOps, confirm \in BOOLEAN :
         /\ pcPropose[c] = "idle"
         /\ c \in PlainCallers => ~confirm
         /\ pcPropose' = [pcPropose EXCEPT ![c] = "awaitLeader"]
         /\ proposeArg' = [proposeArg EXCEPT ![c] = [op |-> op, confirm |-> confirm]]
    /\ UNCHANGED <<leaderReady, waitedFor, proposeChannel, proposeWaiter, nopWaiter,
                   proposeRes>>
    /\ UNCHANGED <<consVars, tocVars, gateVars, segVars, stoVars, xferVars, otherVars>>

\* propose_consensus_op, lines 475-476
ProposePlainSend ==
    /\ \E c \in PlainCallers, open \in BOOLEAN :
         LET s == Send(proposeChannel, c, proposeArg[c].op, open) IN
         /\ pcPropose[c] = "awaitLeader"
         /\ AwaitReadyReturns(leaderReady, waitedFor[c])
         /\ proposeChannel' = s.channel
         /\ proposeRes' = [proposeRes EXCEPT ![c] = s.res]
         /\ pcPropose' = [pcPropose EXCEPT ![c] = "returned"]
    /\ UNCHANGED <<leaderReady, proposeArg, waitedFor, proposeWaiter, nopWaiter>>
    /\ UNCHANGED <<consVars, tocVars, gateVars, segVars, stoVars, xferVars, otherVars>>

\* propose_consensus_op_with_await, lines 534-549: the wait for the leader
\* ends; without a leader the call returns, else it sends the operation
\* and stores the one-shot sender under it
ProposeAwaitSend ==
    /\ \E c \in AwaitCallers, open \in BOOLEAN :
         LET s == Send(proposeChannel, c, proposeArg[c].op, open) IN
         /\ pcPropose[c] = "awaitLeader"
         /\ AwaitReadyForTimeoutReturns(leaderReady, waitedFor[c])
         /\ IF ~leaderReady
            THEN /\ proposeRes' = [proposeRes EXCEPT ![c] = "LeaderNotEstablished"]
                 /\ pcPropose' = [pcPropose EXCEPT ![c] = "returned"]
                 /\ UNCHANGED <<proposeChannel, proposeWaiter, waiters, recv, nextWaiter>>
            ELSE IF s.res # "Ok"
            THEN /\ proposeRes' = [proposeRes EXCEPT ![c] = s.res]
                 /\ pcPropose' = [pcPropose EXCEPT ![c] = "returned"]
                 /\ UNCHANGED <<proposeChannel, proposeWaiter, waiters, recv, nextWaiter>>
            ELSE /\ nextWaiter < MaxWaiters
                 /\ proposeChannel' = s.channel
                 /\ WaiterInsert(proposeArg[c].op)
                 /\ proposeWaiter' = [proposeWaiter EXCEPT ![c] = nextWaiter']
                 /\ pcPropose' = [pcPropose EXCEPT ![c] = "awaitApply"]
                 /\ UNCHANGED proposeRes
    /\ UNCHANGED <<leaderReady, proposeArg, waitedFor, nopWaiter>>
    /\ UNCHANGED <<wal, pers, disk, dirty, sent, pcApply, stopped, ret, handled, tocLog,
                   lastApply>>
    /\ UNCHANGED <<tocVars, gateVars, segVars, stoVars, xferVars, otherVars>>

\* apply_normal_entry, lines 387-409, as a waiter sees it: the sender stored
\* under the operation is taken out and gets the result
OperationApplied ==
    /\ \E op \in MetaOps \cup {NopOperation}, result \in OpResults :
         LET w == waiters[op] IN
         /\ w # NoWaiter
         /\ waiters' = WaitersAfterRemove(waiters, op)
         /\ recv' = RecvAfterSend(recv, w, result)
         /\ sent' = SentAfterSend(sent, w, result)
    /\ UNCHANGED <<wal, pers, disk, dirty, nextWaiter, pcApply, stopped, ret, handled,
                   tocLog, lastApply>>
    /\ UNCHANGED nonConsVars

MutNopAfterAnyResult(res, confirm) == confirm

\* lines 550-554: the ? after await_receiver returns an error or a timeout at
\* once; an Ok goes on to the Nop when with_confirmation is set
SendsNop(res, confirm) == res \in OkResults /\ confirm

\* lines 550-566: await_receiver has an answer; an error or a timeout is
\* returned, and after an Ok the call with confirmation sends a Nop, stores a
\* one-shot sender under it and waits for it
ProposeAwaitReturn ==
    /\ \E c \in AwaitCallers, open \in BOOLEAN :
         LET w == proposeWaiter[c]
             res == IF recv[w] = "Got" THEN sent[w][Len(sent[w])] ELSE "ServiceErr"
             s == Send(proposeChannel, c, NopOperation, open)
         IN  /\ pcPropose[c] = "awaitApply"
             /\ recv[w] # "waiting"
             /\ IF SendsNop(res, proposeArg[c].confirm)
                THEN IF s.res = "Ok"
                     THEN /\ nextWaiter < MaxWaiters
                          /\ proposeChannel' = s.channel
                          /\ WaiterInsert(NopOperation)
                          /\ nopWaiter' = [nopWaiter EXCEPT ![c] = nextWaiter']
                          /\ proposeRes' = [proposeRes EXCEPT ![c] = res]
                          /\ pcPropose' = [pcPropose EXCEPT ![c] = "awaitConfirm"]
                     ELSE /\ proposeRes' = [proposeRes EXCEPT ![c] = s.res]
                          /\ pcPropose' = [pcPropose EXCEPT ![c] = "returned"]
                          /\ UNCHANGED <<proposeChannel, nopWaiter, waiters, recv,
                                         nextWaiter>>
                ELSE /\ proposeRes' = [proposeRes EXCEPT ![c] = res]
                     /\ pcPropose' = [pcPropose EXCEPT ![c] = "returned"]
                     /\ UNCHANGED <<proposeChannel, nopWaiter, waiters, recv, nextWaiter>>
    /\ UNCHANGED <<leaderReady, proposeArg, waitedFor, proposeWaiter>>
    /\ UNCHANGED <<wal, pers, disk, dirty, sent, pcApply, stopped, ret, handled, tocLog,
                   lastApply>>
    /\ UNCHANGED <<tocVars, gateVars, segVars, stoVars, xferVars, otherVars>>

\* lines 567-570: the Nop was applied, or its await_receiver gave up; an error
\* of the Nop is returned, else the result of the operation
ProposeConfirmReturn ==
    /\ \E c \in AwaitCallers :
         LET w == nopWaiter[c]
             answer == IF recv[w] = "Got" THEN sent[w][Len(sent[w])] ELSE "ServiceErr"
         IN  /\ pcPropose[c] = "awaitConfirm"
             /\ recv[w] # "waiting"
             /\ proposeRes' = [proposeRes EXCEPT ![c] =
                                  IF answer \in OkResults THEN proposeRes[c] ELSE answer]
             /\ pcPropose' = [pcPropose EXCEPT ![c] = "returned"]
    /\ UNCHANGED <<leaderReady, proposeArg, waitedFor, proposeChannel, proposeWaiter,
                   nopWaiter>>
    /\ UNCHANGED <<consVars, tocVars, gateVars, segVars, stoVars, xferVars, otherVars>>

\* the consensus driver takes the oldest proposal out of the channel
DriverReceive ==
    /\ proposeChannel # <<>>
    /\ proposeChannel' = Tail(proposeChannel)
    /\ UNCHANGED <<leaderReady, pcPropose, proposeArg, waitedFor, proposeWaiter,
                   nopWaiter, proposeRes>>
    /\ UNCHANGED <<consVars, tocVars, gateVars, segVars, stoVars, xferVars, otherVars>>

ProposeNext ==
    \/ LeaderEstablished
    \/ DriverReceive
    \/ Tick
    \/ ProposeCall
    \/ ProposePlainSend
    \/ ProposeAwaitSend
    \/ OperationApplied
    \/ WaiterTimeout
    \/ ProposeAwaitReturn
    \/ ProposeConfirmReturn

(***************************************************************************)
(* create_collection (toc.rs lines 230-343) step by step, on_peer_created   *)
(* (lines 345-373) and update_collection (lines 425-445).  In cluster mode  *)
(* the meta operations and the applied proposals run on the consensus       *)
(* thread, one after the other.                                             *)
(***************************************************************************)
NewNames == {"n1", "n2"}

\* shard_count() of the distribution, and the two factors after the defaults
\* were filled in (lines 261-265)
ParamValues == 0..2

NoColl == [shards |-> 0, rf |-> 0, wcf |-> 0]

NoCreateArg == [name |-> NoName, params |-> NoColl, local |-> {}, pending |-> {}]

NoCreate == [kind |-> "-", name |-> NoName, res |-> "-", local |-> {}, sent |-> {}]

\* ConsensusOperations::activate_replica(collection_name, shard_id, peer_id)
ActivateReplica(n, shard) == [type |-> "Activate", arg |-> <<n, shard>>]

\* TableOfContent::new with an empty storage directory
CreInit ==
    /\ catalog = [n \in NewNames |-> NoColl]
    /\ collDirs = {}
    /\ snapDirs = {}
    /\ onDisk = [n \in NewNames |-> NoColl]
    /\ localActive = [n \in NewNames |-> {}]
    /\ pcCreate = "idle"
    /\ creArg = NoCreateArg
    /\ lastCreate = NoCreate

\* lines 263-286: NonZeroU32::new of the shard count and of the two factors
ValidateParams(params) ==
    IF params.shards = 0 \/ params.rf = 0 \/ params.wcf = 0 THEN "BadInput" ELSE "Ok"

\* lines 246-252: the two directories are made after the name was found unused
\* and before the params are looked at
DirsAfterCreate(dirs, n, made) == IF made THEN dirs \cup {n} ELSE dirs

\* where create_collection stops before it builds the collection, lines 246-286
CreateValidateResult(cat, n, params, io) ==
    IF cat[n] # NoColl THEN "BadInput"
    ELSE IF io \in {"collDirFail", "snapDirFail"} THEN "ServiceErr"
    ELSE ValidateParams(params)

\* the calls of create_collection: any params; local shards are told apart
\* where the params are accepted, and a directory fails under one of them
CreateCalls ==
    {[params |-> [shards |-> sh, rf |-> rf, wcf |-> wcf], local |-> l, io |-> io] :
        sh \in ParamValues, rf \in ParamValues, wcf \in ParamValues,
        l \in SUBSET (1..2), io \in {"ok", "collDirFail", "snapDirFail"}}

ValidCalls ==
    {c \in CreateCalls :
        /\ c.local \subseteq 1..c.params.shards
        /\ ValidateParams(c.params) # "Ok" => c.local = {}
        /\ c.io # "ok" => (c.local = {} /\ c.params = [shards |-> 1, rf |-> 1, wcf |-> 1])}

\* lines 246-286: the name is validated, the directories are made, the params
\* are validated
CreateValidate ==
    /\ pcCreate = "idle"
    /\ \E n \in NewNames, c \in ValidCalls :
         LET res == CreateValidateResult(catalog, n, c.params, c.io)
             reached == catalog[n] = NoColl
         IN  /\ Len(proposeChannel) + Cardinality(c.local) <= MaxQueued
             /\ collDirs' = DirsAfterCreate(collDirs, n, reached /\ c.io # "collDirFail")
             /\ snapDirs' = DirsAfterCreate(snapDirs, n, reached /\ c.io = "ok")
             /\ IF res = "Ok"
                THEN /\ pcCreate' = "build"
                     /\ creArg' = [name |-> n, params |-> c.params, local |-> c.local,
                                   pending |-> {}]
                     /\ lastCreate' = [NoCreate EXCEPT !.kind = "Create", !.name = n,
                                                       !.local = c.local]
                ELSE /\ UNCHANGED <<pcCreate, creArg>>
                     /\ lastCreate' = [NoCreate EXCEPT !.kind = "Create", !.name = n,
                                                       !.res = res]
    /\ UNCHANGED <<cluster, catalog, onDisk, localActive>>
    /\ UNCHANGED <<consVars, tocVars, gateVars, segVars, stoVars, xferVars, propVars,
                   lockVars, fnVars, mmVars>>

\* lines 304-322: Collection::new builds the collection in its directory
CreateBuild ==
    /\ pcCreate = "build"
    /\ \E io \in BOOLEAN :
         IF io
         THEN /\ onDisk' = [onDisk EXCEPT ![creArg.name] = creArg.params]
              /\ pcCreate' = "insert"
              /\ UNCHANGED <<creArg, lastCreate>>
         ELSE /\ pcCreate' = "idle"
              /\ creArg' = NoCreateArg
              /\ lastCreate' = [lastCreate EXCEPT !.res = "ServiceErr"]
              /\ UNCHANGED onDisk
    /\ UNCHANGED <<cluster, catalog, collDirs, snapDirs, localActive>>
    /\ UNCHANGED <<consVars, tocVars, gateVars, segVars, stoVars, xferVars, propVars,
                   lockVars, fnVars, mmVars>>

\* lines 324-332: get_local_shards, then under the write lock the name is
\* validated again and the collection is inserted
CreateInsert ==
    /\ pcCreate = "insert"
    /\ IF catalog[creArg.name] # NoColl
       THEN /\ pcCreate' = "idle"
            /\ creArg' = NoCreateArg
            /\ lastCreate' = [lastCreate EXCEPT !.res = "BadInput"]
            /\ UNCHANGED catalog
       ELSE /\ catalog' = [catalog EXCEPT ![creArg.name] = creArg.params]
            /\ creArg' = [creArg EXCEPT !.pending = creArg.local]
            /\ pcCreate' = "notify"
            /\ UNCHANGED lastCreate
    /\ UNCHANGED <<cluster, collDirs, snapDirs, onDisk, localActive>>
    /\ UNCHANGED <<consVars, tocVars, gateVars, segVars, stoVars, xferVars, propVars,
                   lockVars, fnVars, mmVars>>

MutActivateDirectly(inCluster) == FALSE

\* line 351: with a proposal sender the activation is proposed
ProposesActivation(inCluster) == inCluster

\* lines 334-338 and on_peer_created, lines 345-373, for the next local shard:
\* in cluster mode the activation is proposed, and a failed send is logged;
\* in single-node mode the replica is set Active, and an error of that is
\* returned
CreateNotify ==
    /\ pcCreate = "notify" /\ creArg.pending # {}
    /\ \E io \in BOOLEAN :
         LET shard == CHOOSE x \in creArg.pending : \A y \in creArg.pending : x <= y
             n == creArg.name
             s == Send(proposeChannel, "toc", ActivateReplica(n, shard), io)
         IN  IF ProposesActivation(cluster)
             THEN /\ proposeChannel' = s.channel
                  /\ lastCreate' = IF s.res = "Ok"
                                   THEN [lastCreate EXCEPT !.sent = @ \cup {shard}]
                                   ELSE lastCreate
                  /\ creArg' = [creArg EXCEPT !.pending = @ \ {shard}]
                  /\ UNCHANGED <<localActive, pcCreate>>
             ELSE /\ UNCHANGED proposeChannel
                  /\ IF io
                     THEN /\ localActive' = [localActive EXCEPT ![n] = @ \cup {shard}]
                          /\ creArg' = [creArg EXCEPT !.pending = @ \ {shard}]
                          /\ UNCHANGED <<lastCreate, pcCreate>>
                     ELSE /\ pcCreate' = "idle"
                          /\ creArg' = NoCreateArg
                          /\ lastCreate' = [lastCreate EXCEPT !.res = "ServiceErr"]
                          /\ UNCHANGED localActive
    /\ UNCHANGED <<cluster, catalog, collDirs, snapDirs, onDisk>>
    /\ UNCHANGED <<leaderReady, pcPropose, proposeArg, waitedFor, proposeWaiter,
                   nopWaiter, proposeRes>>
    /\ UNCHANGED <<consVars, tocVars, gateVars, segVars, stoVars, xferVars,
                   lockVars, fnVars, mmVars>>

\* line 339: Ok(true)
CreateReturn ==
    /\ pcCreate = "notify" /\ creArg.pending = {}
    /\ pcCreate' = "idle"
    /\ creArg' = NoCreateArg
    /\ lastCreate' = [lastCreate EXCEPT !.res = "OkTrue"]
    /\ UNCHANGED <<cluster, catalog, collDirs, snapDirs, onDisk, localActive>>
    /\ UNCHANGED <<consVars, tocVars, gateVars, segVars, stoVars, xferVars, propVars,
                   lockVars, fnVars, mmVars>>

\* the consensus thread applies the oldest proposal, a SetShardReplicaState
\* (toc.rs lines 566-575): the replica of a collection that is there becomes
\* Active
ApplyActivation ==
    /\ pcCreate = "idle" /\ proposeChannel # <<>>
    /\ LET op == Head(proposeChannel).op
           n == op.arg[1]
       IN  /\ proposeChannel' = Tail(proposeChannel)
           /\ localActive' = IF catalog[n] # NoColl
                             THEN [localActive EXCEPT ![n] = @ \cup {op.arg[2]}]
                             ELSE localActive
           /\ lastCreate' = [NoCreate EXCEPT !.kind = "SetShardReplicaState", !.name = n]
    /\ UNCHANGED <<cluster, catalog, collDirs, snapDirs, onDisk, pcCreate, creArg>>
    /\ UNCHANGED <<leaderReady, pcPropose, proposeArg, waitedFor, proposeWaiter,
                   nopWaiter, proposeRes>>
    /\ UNCHANGED <<consVars, tocVars, gateVars, segVars, stoVars, xferVars,
                   lockVars, fnVars, mmVars>>

\* update_collection, lines 425-445, with a params diff: the collection takes
\* the factors of the diff and saves its config
UpdateCollection ==
    /\ pcCreate = "idle"
    /\ \E n \in NewNames, rf \in ParamValues \ {0}, wcf \in ParamValues \ {0} :
         IF catalog[n] = NoColl
         THEN /\ lastCreate' = [NoCreate EXCEPT !.kind = "Update", !.name = n,
                                                !.res = "NotFound"]
              /\ UNCHANGED <<catalog, onDisk>>
         ELSE /\ catalog' = [catalog EXCEPT ![n].rf = rf, ![n].wcf = wcf]
              /\ onDisk' = [onDisk EXCEPT ![n].rf = rf, ![n].wcf = wcf]
              /\ lastCreate' = [NoCreate EXCEPT !.kind = "Update", !.name = n,
                                                !.res = "OkTrue"]
    /\ UNCHANGED <<cluster, collDirs, snapDirs, localActive, pcCreate, creArg>>
    /\ UNCHANGED <<consVars, tocVars, gateVars, segVars, stoVars, xferVars, propVars,
                   lockVars, fnVars, mmVars>>

CreateNext ==
    \/ CreateValidate
    \/ CreateBuild
    \/ CreateInsert
    \/ CreateNotify
    \/ CreateReturn
    \/ ApplyActivation
    \/ UpdateCollection

(***************************************************************************)
(* The order in which the functions of the ToC take the catalog lock and   *)
(* the alias store's lock, and the functions of ConsensusState take the    *)
(* lock of the persistent state and the lock of the WAL.  A function is    *)
(* the sequence of its acquisitions and releases; a guard that is a        *)
(* temporary lives to the end of its statement, and a temporary of the     *)
(* scrutinee of a match lives to the end of the match.                     *)
(***************************************************************************)
LockTasks == {"driver", "other"}

NoPath == [fn |-> "-", branch |-> FALSE]

Acq(l, mode) == [act |-> "acq", lock |-> l, mode |-> mode]

Rel(l) == [act |-> "rel", lock |-> l, mode |-> "-"]

MutResolveNameKeepsAliasGuard ==
    <<Acq("alias", "read"), Acq("catalog", "read"), Rel("catalog"), Rel("alias")>>

\* resolve_name, toc.rs lines 215-228: the alias guard is a temporary of the
\* let statement of line 216, the catalog guard one of lines 222-226
ResolveNameLocks ==
    <<Acq("alias", "read"), Rel("alias"), Acq("catalog", "read"), Rel("catalog")>>

\* get_collection, lines 678-688: the guard of line 682 goes to the caller,
\* who drops it
GetCollectionLocks == <<Acq("catalog", "read")>> \o ResolveNameLocks \o <<Rel("catalog")>>

\* update_aliases, lines 471-472 and 507: the locals are dropped in reverse
UpdateAliasesLocks ==
    <<Acq("catalog", "write"), Acq("alias", "write"), Rel("alias"), Rel("catalog")>>

\* collections_snapshot, lines 939-948: the catalog guard lives for the loop
CollectionsSnapshotLocks ==
    <<Acq("catalog", "read"), Rel("catalog"), Acq("alias", "read"), Rel("alias")>>

\* apply_collections_snapshot, lines 955 and 1028-1031
ApplyCollectionsSnapshotLocks ==
    <<Acq("catalog", "write"), Acq("alias", "write"), Rel("alias"), Rel("catalog")>>

\* collection_aliases, lines 866-876
CollectionAliasesLocks == <<Acq("alias", "read"), Rel("alias")>>

\* first_index and last_index, consensus_state.rs lines 626-640: the WAL guard
\* is a temporary of the scrutinee; with an empty WAL (emptyWal) the None arm
\* reads the persistent state
FirstIndexLocks(emptyWal) ==
    IF emptyWal
    THEN <<Acq("wal", "lock"), Acq("persistent", "read"), Rel("persistent"), Rel("wal")>>
    ELSE <<Acq("wal", "lock"), Rel("wal")>>

LastIndexLocks(emptyWal) == FirstIndexLocks(emptyWal)

\* term, lines 617-624: the index of the snapshot is answered from the
\* persistent state (atSnapshot), any other from the WAL under the same guard
TermLocks(atSnapshot) ==
    IF atSnapshot
    THEN <<Acq("persistent", "read"), Rel("persistent")>>
    ELSE <<Acq("persistent", "read"), Acq("wal", "lock"), Rel("wal"), Rel("persistent")>>

\* entries, lines 595-615
EntriesLocks(emptyWal) ==
    FirstIndexLocks(emptyWal) \o LastIndexLocks(emptyWal)
        \o <<Acq("wal", "lock"), Rel("wal")>>

\* apply_entries, lines 305-385, with one entry to apply
ApplyEntriesLocks ==
    <<Acq("persistent", "write"), Rel("persistent"),
      Acq("persistent", "read"), Rel("persistent"),
      Acq("wal", "lock"), Rel("wal"),
      Acq("persistent", "write"), Rel("persistent"),
      Acq("persistent", "read"), Rel("persistent")>>

\* apply_snapshot, lines 411-425
ApplySnapshotLocks(emptyWal) ==
    FirstIndexLocks(emptyWal)
        \o <<Acq("wal", "lock"), Rel("wal"), Acq("persistent", "write"), Rel("persistent")>>

\* cluster_status, hard_state, peer_address_by_id and the like, lines 143-160,
\* 444-450, 573-587
ReadPersistentLocks == <<Acq("persistent", "read"), Rel("persistent")>>

\* the functions of the ToC that take the catalog lock or the alias lock
TocPaths ==
    {[fn |-> f, branch |-> FALSE] :
        f \in {"get_collection", "update_aliases", "collections_snapshot",
               "apply_collections_snapshot", "collection_aliases"}}

\* the functions of ConsensusState: those of raft's Storage and the apply
\* functions are called by the consensus driver, the readers by any thread
ConsensusPaths(t) ==
    IF t = "driver"
    THEN {[fn |-> f, branch |-> b] :
            f \in {"first_index", "last_index", "term", "entries", "apply_snapshot"},
            b \in BOOLEAN}
         \cup {[fn |-> "apply_entries", branch |-> FALSE]}
    ELSE {[fn |-> "read_persistent", branch |-> FALSE]}

LockProgram(path) ==
    CASE path.fn = "get_collection" -> GetCollectionLocks
      [] path.fn = "update_aliases" -> UpdateAliasesLocks
      [] path.fn = "collections_snapshot" -> CollectionsSnapshotLocks
      [] path.fn = "apply_collections_snapshot" -> ApplyCollectionsSnapshotLocks
      [] path.fn = "collection_aliases" -> CollectionAliasesLocks
      [] path.fn = "first_index" -> FirstIndexLocks(path.branch)
      [] path.fn = "last_index" -> LastIndexLocks(path.branch)
      [] path.fn = "term" -> TermLocks(path.branch)
      [] path.fn = "entries" -> EntriesLocks(path.branch)
      [] path.fn = "apply_entries" -> ApplyEntriesLocks
      [] path.fn = "apply_snapshot" -> ApplySnapshotLocks(path.branch)
      [] OTHER -> ReadPersistentLocks

LockInit ==
    /\ taskPath = [t \in LockTasks |-> NoPath]
    /\ taskProg = [t \in LockTasks |-> <<>>]
    /\ held = [t \in LockTasks |-> <<>>]

\* whether task t holds a guard of lock l
Holds(h, t, l) == \E k \in 1..Len(h[t]) : h[t][k].lock = l

\* a read guard is given when no guard of another mode is out, any other
\* guard when none is out
Grantable(h, op) ==
    \A u \in LockTasks : \A k \in 1..Len(h[u]) :
        h[u][k].lock = op.lock => (op.mode = "read" /\ h[u][k].mode = "read")

\* the guards of a task without the one of lock l it got last
WithoutLast(hs, l) ==
    LET k == CHOOSE i \in 1..Len(hs) :
                 hs[i].lock = l /\ \A j \in (i + 1)..Len(hs) : hs[j].lock # l
    IN  SubSeq(hs, 1, k - 1) \o SubSeq(hs, k + 1, Len(hs))

\* a task begins one of the functions
TaskStart(t, path) ==
    /\ taskProg[t] = <<>>
    /\ taskPath' = [taskPath EXCEPT ![t] = path]
    /\ taskProg' = [taskProg EXCEPT ![t] = LockProgram(path)]
    /\ UNCHANGED held
    /\ UNCHANGED <<consVars, tocVars, gateVars, segVars, stoVars, xferVars, propVars,
                   creVars, fnVars, mmVars>>

TocTaskStart == \E t \in LockTasks : \E path \in TocPaths : TaskStart(t, path)

ConsensusTaskStart ==
    \E t \in LockTasks : \E path \in ConsensusPaths(t) : TaskStart(t, path)

\* the next acquisition or release of a task; after the last one the function
\* has returned
LockStep ==
    /\ \E t \in LockTasks :
         LET op == Head(taskProg[t]) IN
         /\ taskProg[t] # <<>>
         /\ IF op.act = "acq"
            THEN /\ Grantable(held, op)
                 /\ held' = [held EXCEPT ![t] = Append(@, [lock |-> op.lock,
                                                           mode |-> op.mode])]
            ELSE held' = [held EXCEPT ![t] = WithoutLast(@, op.lock)]
         /\ taskProg' = [taskProg EXCEPT ![t] = Tail(@)]
         /\ taskPath' = IF Len(taskProg[t]) = 1 THEN [taskPath EXCEPT ![t] = NoPath]
                        ELSE taskPath
    /\ UNCHANGED <<consVars, tocVars, gateVars, segVars, stoVars, xferVars, propVars,
                   creVars, fnVars, mmVars>>

TocLockNext ==
    \/ TocTaskStart
    \/ LockStep

ConsensusLockNext ==
    \/ ConsensusTaskStart
    \/ LockStep

(***************************************************************************)
(* Update operations: estimate_effect_area (operation_effect.rs) and       *)
(* split_by_shard of the payload operations (payload_ops.rs lines 56-86).  *)
(***************************************************************************)
MaxIds == 3

Filters == {"f1", "f2"}

Payloads == {"p1", "p2"}

Shards == {0, 1}

\* Vec<PointIdType>: the ids in the order given, an id may come twice
IdLists == UNION {[1..n -> PointIds] : n \in 0..MaxIds}

PointVariants ==
    {"UpsertBatch", "UpsertList", "DeletePoints", "DeletePointsByFilter", "SyncPoints"}

FieldIndexVariants == {"CreateIndex", "DeleteIndex"}

NoIds == <<>>

Operation(family, variant, ids, filter, data) ==
    [family |-> family, variant |-> variant, ids |-> ids, filter |-> filter,
     data |-> data]

\* PayloadOps, payload_ops.rs lines 26-42; data is the payload of a set
\* operation and the keys of DeletePayload
PayloadOperations ==
    {Operation("payload", v, ids, "-", d) :
        v \in {"SetPayload", "DeletePayload"}, ids \in IdLists, d \in Payloads}
    \cup {Operation("payload", "ClearPayload", ids, "-", "-") : ids \in IdLists}
    \cup {Operation("payload", "SetPayloadByFilter", NoIds, f, d) :
            f \in Filters, d \in Payloads}
    \cup {Operation("payload", "ClearPayloadByFilter", NoIds, f, "-") : f \in Filters}

\* PointOperations and FieldIndexOperations, as operation_effect.rs names them
PointOperations ==
    {Operation("point", v, ids, "-", "-") :
        v \in PointVariants \ {"DeletePointsByFilter"}, ids \in IdLists}
    \cup {Operation("point", "DeletePointsByFilter", NoIds, f, "-") : f \in Filters}

FieldIndexOperations ==
    {Operation("field_index", v, NoIds, "-", "-") : v \in FieldIndexVariants}

CollectionUpdateOperations ==
    PointOperations \cup PayloadOperations \cup FieldIndexOperations

\* OperationEffectArea, lines 7-11
Empty == [kind |-> "Empty", ids |-> NoIds, filter |-> "-"]

Points(ids) == [kind |-> "Points", ids |-> ids, filter |-> "-"]

Filter(f) == [kind |-> "Filter", ids |-> NoIds, filter |-> f]

\* no arm of the match takes the operation
NoArm == [kind |-> "NoArm", ids |-> NoIds, filter |-> "-"]

\* debug_assert!(false) in a build with debug assertions
Panicked == [kind |-> "Panic", ids |-> NoIds, filter |-> "-"]

NotCalled == [kind |-> "-", ids |-> NoIds, filter |-> "-"]

\* impl EstimateOperationEffectArea for PointOperations and for
\* PointInsertOperations, lines 41-76
PointEffectArea(op, debug) ==
    CASE op.variant \in {"UpsertBatch", "UpsertList", "DeletePoints"} -> Points(op.ids)
      [] op.variant = "DeletePointsByFilter" -> Filter(op.filter)
      [] OTHER -> IF debug THEN Panicked ELSE Points(op.ids)

\* impl EstimateOperationEffectArea for PayloadOps, lines 78-90: arms for
\* SetPayload, DeletePayload, ClearPayload and ClearPayloadByFilter
PayloadEffectArea(op) ==
    CASE op.variant \in {"SetPayload", "DeletePayload", "ClearPayload"} -> Points(op.ids)
      [] op.variant = "ClearPayloadByFilter" -> Filter(op.filter)
      [] OTHER -> NoArm

\* impl EstimateOperationEffectArea for CollectionUpdateOperations, lines 27-39
EstimateEffectArea(op, debug) ==
    CASE op.family = "point" -> PointEffectArea(op, debug)
      [] op.family = "payload" -> PayloadEffectArea(op)
      [] OTHER -> Empty

\* the points of the list that the ring routes to the shard, in their order
RECURSIVE PointsOfShard(_, _, _)
PointsOfShard(pts, ring, shard) ==
    IF pts = <<>> THEN <<>>
    ELSE (IF ring[Head(pts)] = shard THEN <<Head(pts)>> ELSE <<>>)
            \o PointsOfShard(Tail(pts), ring, shard)

\* split_iter_by_shard(points, |id| *id, ring): each point is pushed to the
\* list of the shard the ring gives for it; a shard without a point has no list
SplitIterByShard(pts, ring) ==
    [shard \in {ring[pts[k]] : k \in 1..Len(pts)} |->
        PointsOfShard(pts, ring, shard)]

\* OperationToShard::to_all and OperationToShard::by_shard
ToAll(op) == [kind |-> "ToAll", op |-> op, byShard |-> <<>>]

ByShard(m) == [kind |-> "ByShard", op |-> "-", byShard |-> m]

NotSplit == [kind |-> "-", op |-> "-", byShard |-> <<>>]

MutSubOperationWithoutData(op, pts) == [op EXCEPT !.ids = pts, !.data = "-"]

\* the closures of lines 60-63, 72-73 and 81-84: the operation of a shard has
\* the points of the shard and a clone of the payload or of the keys
SubOperation(op, pts) == [op EXCEPT !.ids = pts]

\* impl SplitByShard for PayloadOps and for DeletePayload, lines 56-86
SplitByShard(op, ring) ==
    IF op.variant \in {"SetPayloadByFilter", "ClearPayloadByFilter"}
    THEN ToAll(op)
    ELSE LET lists == SplitIterByShard(op.ids, ring)
         IN  ByShard([shard \in DOMAIN lists |-> SubOperation(op, lists[shard])])

\* no operation at hand
FnInit ==
    /\ opIn = Operation("-", "-", NoIds, "-", "-")
    /\ ringIn = [id \in PointIds |-> 0]
    /\ debugAssertions = FALSE
    /\ effectOut = NotCalled
    /\ splitOut = NotSplit

\* an update operation, a ring and a build
FnInputs ==
    /\ opIn \in CollectionUpdateOperations
    /\ ringIn \in [PointIds -> Shards]
    /\ debugAssertions \in BOOLEAN
    /\ effectOut = NotCalled
    /\ splitOut = NotSplit

Estimate ==
    /\ effectOut = NotCalled
    /\ effectOut' = EstimateEffectArea(opIn, debugAssertions)
    /\ UNCHANGED <<opIn, ringIn, debugAssertions, splitOut>>
    /\ UNCHANGED <<consVars, tocVars, gateVars, segVars, stoVars, xferVars, propVars,
                   creVars, lockVars, mmVars>>

Split ==
    /\ splitOut = NotSplit /\ opIn.family = "payload"
    /\ splitOut' = SplitByShard(opIn, ringIn)
    /\ UNCHANGED <<opIn, ringIn, debugAssertions, effectOut>>
    /\ UNCHANGED <<consVars, tocVars, gateVars, segVars, stoVars, xferVars, propVars,
                   creVars, lockVars, mmVars>>

OperationsNext ==
    \/ Estimate
    \/ Split

(***************************************************************************)
(* MmapVectors (mmap_vectors.rs): the memory-mapped file of the vectors    *)
(* and the file of the soft-delete flags.                                  *)
(***************************************************************************)
MaxVectors == 2

VECTORS_HEADER == "data"
DELETED_HEADER == "drop"

\* what the first HEADER_SIZE bytes of an existing file may be; "short" is
\* a file that was created and never got its header
Headers == {VECTORS_HEADER, DELETED_HEADER, "junk"}

NoFile == [exists |-> FALSE, header |-> "-", rows |-> <<>>]

NoStore == [open |-> FALSE, num_vectors |-> 0, deleted_count |-> 0]

NoMmapCall == [op |-> "none", key |-> 0, res |-> "-", flag |-> 0, count |-> 0]

\* keys asked for: those of the rows and some beyond them
MmapKeys == 0..MaxVectors

MmInit ==
    /\ vectorsFile = NoFile
    /\ deletedFile = NoFile
    /\ mmapVectors = NoStore
    /\ lastMmap = NoMmapCall

\* lines 50-57; io: File::create fails, write_all fails, or both succeed
EnsureMmapFileExists(file, header, io) ==
    CASE file.exists -> [ok |-> TRUE, file |-> file]
      [] ~file.exists /\ io = "create" -> [ok |-> FALSE, file |-> file]
      [] ~file.exists /\ io = "write" ->
            [ok |-> FALSE, file |-> [exists |-> TRUE, header |-> "short", rows |-> <<>>]]
      [] OTHER -> [ok |-> TRUE, file |-> [exists |-> TRUE, header |-> header, rows |-> <<>>]]

\* lines 29-48: the file is opened and mapped; a file of no bytes cannot be
\* mapped, and the open or the map may fail
MapFails(file, io) == file.header = "short" \/ io = "map"

\* lines 70-72: the sum of the bytes after the header
RECURSIVE SumOfBytes(_)
SumOfBytes(bytes) ==
    IF bytes = <<>> THEN 0 ELSE Head(bytes) + SumOfBytes(Tail(bytes))

\* lines 60-81: what open returns on these two files
OpenResult(vfile, dfile, io) ==
    IF MapFails(vfile, io) \/ MapFails(dfile, io)
    THEN [ok |-> FALSE, store |-> NoStore]
    ELSE [ok |-> TRUE,
          store |-> [open |-> TRUE, num_vectors |-> Len(vfile.rows),
                     deleted_count |-> SumOfBytes(dfile.rows)]]

\* MmapVectors::open, lines 60-81
MmapOpen ==
    /\ ~mmapVectors.open
    /\ \E io \in {"ok", "create", "write", "map"} :
          LET v == EnsureMmapFileExists(vectorsFile, VECTORS_HEADER, io)
              d == EnsureMmapFileExists(deletedFile, DELETED_HEADER, io)
              r == OpenResult(v.file, d.file, io)
          IN  /\ vectorsFile' = v.file
              /\ deletedFile' = IF v.ok THEN d.file ELSE deletedFile
              /\ mmapVectors' = IF v.ok /\ d.ok THEN r.store ELSE NoStore
              /\ lastMmap' = [NoMmapCall EXCEPT
                                !.op = "open",
                                !.res = IF v.ok /\ d.ok /\ r.ok THEN "Ok"
                                        ELSE "ServiceErr"]
    /\ UNCHANGED <<consVars, tocVars, gateVars, segVars, stoVars, xferVars, propVars,
                   creVars, lockVars, fnVars>>

\* lines 107-109 and 115-117: the flag of the key, if the file has that byte
NoFlag == 0 - 1
CheckDeleted(flags, key) == IF key + 1 <= Len(flags) THEN flags[key + 1] ELSE NoFlag

\* lines 83-90
DataOffset(store, key) == IF key >= store.num_vectors THEN "None" ELSE "Some"

\* lines 120-127
GetVectorResult(store, flags, key) ==
    IF CheckDeleted(flags, key) = NoFlag \/ CheckDeleted(flags, key) > 0
    THEN "None"
    ELSE DataOffset(store, key)

\* MmapVectors::get_vector
MmapGetVector ==
    /\ mmapVectors.open
    /\ \E key \in MmapKeys :
          lastMmap' = [op |-> "get_vector", key |-> key,
                       res |-> GetVectorResult(mmapVectors, deletedFile.rows, key),
                       flag |-> CheckDeleted(deletedFile.rows, key),
                       count |-> mmapVectors.deleted_count]
    /\ UNCHANGED <<vectorsFile, deletedFile, mmapVectors>>
    /\ UNCHANGED <<consVars, tocVars, gateVars, segVars, stoVars, xferVars, propVars,
                   creVars, lockVars, fnVars>>

\* line 134: the flag is set and counted when it was zero
MutCountEveryDelete(flag) == TRUE
FlagIsClear(flag) == flag = 0

\* MmapVectors::delete, lines 129-140
MmapDelete ==
    /\ mmapVectors.open
    /\ \E key \in MmapKeys :
          LET flag == CheckDeleted(deletedFile.rows, key)
              sets == key < mmapVectors.num_vectors /\ FlagIsClear(flag)
          IN  /\ deletedFile' = IF sets
                                THEN [deletedFile EXCEPT !.rows[key + 1] = 1]
                                ELSE deletedFile
              /\ mmapVectors' = IF sets
                                THEN [mmapVectors EXCEPT !.deleted_count = @ + 1]
                                ELSE mmapVectors
              /\ lastMmap' = [op |-> "delete", key |-> key, res |-> "Ok",
                              flag |-> flag, count |-> mmapVectors.deleted_count]
    /\ UNCHANGED vectorsFile
    /\ UNCHANGED <<consVars, tocVars, gateVars, segVars, stoVars, xferVars, propVars,
                   creVars, lockVars, fnVars>>

\* the MmapVectors value is dropped; the files stay
MmapDrop ==
    /\ mmapVectors.open
    /\ mmapVectors' = NoStore
    /\ lastMmap' = [NoMmapCall EXCEPT !.op = "drop"]
    /\ UNCHANGED <<vectorsFile, deletedFile>>
    /\ UNCHANGED <<consVars, tocVars, gateVars, segVars, stoVars, xferVars, propVars,
                   creVars, lockVars, fnVars>>

MmapNext ==
    \/ MmapOpen
    \/ MmapGetVector
    \/ MmapDelete
    \/ MmapDrop

\* the files before the first open: none, or files with as many flags as
\* vectors, each flag as delete writes it, under any header
MmapFiles ==
    {NoFile} \cup
    {[exists |-> TRUE, header |-> h, rows |-> r] :
        h \in Headers, r \in UNION {[1..n -> {0, 1}] : n \in 0..MaxVectors}}

MmInputs ==
    /\ vectorsFile \in MmapFiles
    /\ deletedFile \in MmapFiles
    /\ vectorsFile.exists = deletedFile.exists
    /\ Len(vectorsFile.rows) = Len(deletedFile.rows)
    /\ \A k \in 1..Len(vectorsFile.rows) : vectorsFile.rows[k] = 0
    /\ mmapVectors = NoStore
    /\ lastMmap = NoMmapCall

\* main.rs lines 120-126: a single node has no proposal sender
OtherInit == cluster = FALSE /\ CreInit /\ LockInit /\ FnInit /\ MmInit

\* any entry the leader may replicate
AppendEntries == AppendEntriesOf(EntryData)

\* entries that carry collection meta operations, and a leader's empty entries
AppendMetaEntries == AppendEntriesOf({d \in EntryData : d.kind \in {"Empty", "Normal"}})

\* callers that wait for a collection meta operation
RegisterMetaWaiter == RegisterWaiterOf(MetaOps)

ConsNext ==
    \/ AppendEntries
    \/ SetUnappliedEntries
    \/ ApplyEntriesBegin
    \/ ApplyLoopDone
    \/ ApplyWalReadFailed
    \/ ApplyEmptyEntry
    \/ ApplyNormalEntry
    \/ ApplyConfChangeEntry
    \/ ApplyUnsupportedEntry

InitConsensus == ConsInit /\ TocInit /\ GateInit /\ SegInit /\ StoInit
                    /\ XferInit /\ PropInit /\ OtherInit

\* The consensus driver applying whatever the log holds.
SpecConsensus == InitConsensus /\ [][ConsNext]_vars

WaitNext ==
    \/ AppendMetaEntries
    \/ SetUnappliedEntries
    \/ ApplyEntriesBegin
    \/ ApplyLoopDone
    \/ ApplyWalReadFailed
    \/ ApplyEmptyEntry
    \/ ApplyNormalEntry
    \/ RegisterMetaWaiter
    \/ WaiterTimeout

\* The consensus driver (consensus/consensus.rs, not among the source files)
\* on entries that Raft reports as committed: set_commit_index (452-456),
\* set_unapplied_entries (293-302) for the entries committed since, and
\* apply_entries; a state write that fails ends the driver.
DriverReady ==
    /\ ~stopped /\ pcApply = "idle"
    /\ \E c \in (pers.hard_state.commit + 1)..WalLastIndex(wal), saved \in BOOLEAN :
          LET new == [pers EXCEPT !.hard_state.commit = c,
                                  !.progress = NewProgress(pers.hard_state.commit + 1, c)]
              u == ApplyStateUpdate(pers, disk, new, saved)
          IN  /\ pers' = u.pers /\ disk' = u.disk
              /\ IF saved
                 THEN /\ pcApply' = "loop" /\ ret' = "none" /\ UNCHANGED stopped
                 ELSE /\ stopped' = TRUE /\ UNCHANGED <<pcApply, ret>>
    /\ handled' = <<>> /\ tocLog' = <<>> /\ lastApply' = NoApply
    /\ UNCHANGED <<wal, dirty, waiters, recv, sent, nextWaiter>>
    /\ UNCHANGED nonConsVars

\* The process, halted or dead, is started again: Persistent::load_or_init
\* reads the file, and apply_entries goes on from the cursor it holds.  The
\* calls the ToC got so far stay on record.
Restart ==
    /\ stopped /\ Len(tocLog) <= MaxLog
    /\ pers' = LoadOrInit(disk)
    /\ dirty' = FALSE
    /\ stopped' = FALSE /\ pcApply' = "loop" /\ ret' = "none"
    /\ handled' = <<>>
    /\ UNCHANGED <<wal, disk, waiters, recv, sent, nextWaiter, tocLog, lastApply>>
    /\ UNCHANGED nonConsVars

RestartNext ==
    \/ AppendMetaEntries
    \/ SetUnappliedEntries
    \/ ApplyEntriesBegin
    \/ ApplyLoopDone
    \/ ApplyWalReadFailed
    \/ ApplyEmptyEntry
    \/ ApplyNormalEntry
    \/ Restart

\* The driver applies meta operations; the process may halt and start again.
SpecRestart == InitConsensus /\ [][RestartNext]_vars

\* Raft asks the storage for a snapshot on the driver thread, between two
\* runs of apply_entries
SnapshotBetweenApplies == pcApply = "idle" /\ ~stopped /\ Snapshot

SnapshotApplyNext ==
    \/ AppendMetaEntries
    \/ DriverReady
    \/ ApplyLoopDone
    \/ ApplyWalReadFailed
    \/ ApplyEmptyEntry
    \/ ApplyNormalEntry
    \/ SnapshotBetweenApplies

\* The driver applies what was committed and hands out snapshots in between.
SpecSnapshotApply == InitConsensus /\ [][SnapshotApplyNext]_vars

\* entries that add a learner to the cluster
AppendAddLearnerEntries ==
    AppendEntriesOf({d \in EntryData : d.change = "AddLearnerNode"})

\* callers that wait for a peer to be added
RegisterAddPeerWaiter == RegisterWaiterOf({o \in PeerOps : o.type = "AddPeer"})

ConfChangeNext ==
    \/ AppendAddLearnerEntries
    \/ SetUnappliedEntries
    \/ ApplyEntriesBegin
    \/ ApplyLoopDone
    \/ ApplyWalReadFailed
    \/ ApplyConfChangeEntry
    \/ RegisterAddPeerWaiter
    \/ WaiterTimeout

\* The driver applying learner additions while callers wait for them.
SpecConfChange == InitConsensus /\ [][ConfChangeNext]_vars

\* The driver applying collection meta operations while callers wait for them.
SpecWaiters == InitConsensus /\ [][WaitNext]_vars

TocNext ==
    \/ CreateCollection
    \/ DeleteCollection
    \/ UpdateAliasesRequest
    \/ CatalogGrant
    \/ AliasActionStep
    \/ UpdateAliasesReturn
    \/ ApplyCollectionsSnapshot

InitToc == ConsInit /\ TocInit /\ GateInit /\ SegInit /\ StoInit
                    /\ XferInit /\ PropInit /\ OtherInit

MetaOpsNext ==
    \/ CreateCollection
    \/ DeleteCollection
    \/ UpdateAliasesRequest
    \/ CatalogGrant
    \/ AliasActionStep
    \/ UpdateAliasesReturn

\* Collections are created and deleted and aliases changed; no snapshot comes.
SpecMetaOps == InitToc /\ [][MetaOpsNext]_vars

\* The meta operations of the ToC, one after the other.
SpecToc == InitToc /\ [][TocNext]_vars

LocksNext ==
    \/ UpdateAliasesRequest
    \/ CatalogGrant
    \/ AliasActionStep
    \/ UpdateAliasesReturn
    \/ ReadRequest
    \/ ReadAlias
    \/ ReadRelease

InitTocLocks == ConsInit /\ TocLoadedInit /\ GateInit /\ SegInit /\ StoInit
                    /\ XferInit /\ PropInit /\ OtherInit

\* update_aliases is called once, on the ToC as it was loaded
FirstUpdateAliases == lastMeta = NoMeta /\ UpdateAliasesRequest

AliasBatchNext ==
    \/ FirstUpdateAliases
    \/ CatalogGrant
    \/ AliasActionStep
    \/ UpdateAliasesReturn

\* One ChangeAliases batch on a ToC that holds the collection "c" and no alias.
SpecAliasBatch == InitTocLocks /\ [][AliasBatchNext]_vars

\* Alias batches next to concurrent get_collection calls.
SpecTocLocks == InitTocLocks /\ [][LocksNext]_vars

InitGate == ConsInit /\ TocLoadedInit /\ GateInit /\ SegInit /\ StoInit
                    /\ XferInit /\ PropInit /\ OtherInit

\* Client and peer updates against the write gate.
SpecGate == InitGate /\ [][GateNext]_vars

InitSegment == ConsInit /\ TocInit /\ GateInit /\ SegInit /\ StoInit
                    /\ XferInit /\ PropInit /\ OtherInit

\* The operations of one segment.
SpecSegment == InitSegment /\ [][SegNext]_vars

SnapshotNext ==
    \/ Snapshot
    \/ ApplySnapshot
    \/ AppendCurrentTerm

InitSnapshot == ConsInit /\ TocInit /\ GateInit /\ SegInit /\ StoInit
                    /\ XferInit /\ PropInit /\ OtherInit

\* A fresh node that takes snapshots of other peers, hands out its own, and
\* whose driver appends entries.
SpecSnapshot == InitSnapshot /\ [][SnapshotNext]_vars

PersistentNext ==
    \/ SetPersistentState
    \/ CrashInStateUpdate

InitPersistentState == ConsInit /\ TocInit /\ GateInit /\ SegInit /\ StoInit
                    /\ XferInit /\ PropInit /\ OtherInit

\* The driver moving the hard state and the conf state, over a disk that may
\* fail and a process that may die.
SpecPersistent == InitPersistentState /\ [][PersistentNext]_vars

InitXfer == ConsInit /\ TocLoadedInit /\ GateInit /\ SegInit /\ StoInit
                    /\ XferInit /\ PropInit /\ OtherInit

\* Committed shard operations of the collection "c", one after the other.
SpecXfer == InitXfer /\ [][XferNext]_vars

InitCreate == ConsInit /\ TocInit /\ GateInit /\ SegInit /\ StoInit
                    /\ XferInit /\ PropInit /\ cluster \in BOOLEAN /\ CreInit
                    /\ LockInit /\ FnInit /\ MmInit

\* Collections are created and updated on a node that runs in cluster mode or
\* as a single node; proposed activations are applied.
SpecCreate == InitCreate /\ [][CreateNext]_vars

InitLocks == ConsInit /\ TocInit /\ GateInit /\ SegInit /\ StoInit
                    /\ XferInit /\ PropInit /\ OtherInit

\* Two tasks run functions of the ToC that take the catalog or the alias lock.
SpecTocLockOrder == InitLocks /\ [][TocLockNext]_vars

\* The consensus driver runs the functions of ConsensusState next to a
\* thread that reads the persistent state.
SpecConsensusLockOrder == InitLocks /\ [][ConsensusLockNext]_vars

InitOperations == ConsInit /\ TocInit /\ GateInit /\ SegInit /\ StoInit
                    /\ XferInit /\ PropInit /\ cluster = FALSE /\ CreInit
                    /\ LockInit /\ FnInputs /\ MmInit

InitMmap == ConsInit /\ TocInit /\ GateInit /\ SegInit /\ StoInit
                    /\ XferInit /\ PropInit /\ cluster = FALSE /\ CreInit
                    /\ LockInit /\ FnInit /\ MmInputs

\* A store is opened on the files found, keys are deleted and read, the store
\* is dropped and opened again.
SpecMmap == InitMmap /\ [][MmapNext]_vars

\* Any update operation is estimated, and split when it is a payload operation.
SpecOperations == InitOperations /\ [][OperationsNext]_vars

InitPropose == ConsInit /\ TocInit /\ GateInit /\ SegInit /\ StoInit
                    /\ XferInit /\ PropInit /\ OtherInit

\* Two callers propose while a leader may or may not come; time passes, and
\* a caller that can take its next step takes it.
SpecPropose ==
    /\ InitPropose /\ [][ProposeNext]_vars
    /\ WF_vars(Tick) /\ WF_vars(ProposePlainSend) /\ WF_vars(ProposeAwaitSend)
    /\ WF_vars(WaiterTimeout) /\ WF_vars(ProposeAwaitReturn)
    /\ WF_vars(ProposeConfirmReturn)

StorageNext ==
    \/ StorageAppendEntries
    \/ InstallSnapshot
    \/ QueryIndexes
    \/ QueryTerm
    \/ QueryEntries

InitStorage == ConsInit /\ TocInit /\ GateInit /\ SegInit /\ StoInit
                    /\ XferInit /\ PropInit /\ OtherInit

\* Raft reading the log next to the reference log, as in the tests.
SpecStorage == InitStorage /\ [][StorageNext]_vars

(***************************************************************************)
(* Properties of apply_entries.                                            *)
(***************************************************************************)
\* the entries the last apply_entries call had as its current unapplied entry
Reached == {handled[k] : k \in 1..Len(handled)} \cup ({lastApply.index} \ {NoneIdx})

ApplyReturned == pcApply = "idle" /\ ret \in {"true", "false"}

\* C1: when apply_entries returns, every entry it reached as the current
\* unapplied entry was applied and the persisted cursor is past it, or the call
\* returned true; it never returns false with a reached entry still current.
C1_AppliedOrHalted ==
    ApplyReturned =>
        /\ \A i \in Reached : disk.progress.next > i \/ ret = "true"
        /\ ret = "false" => Current(disk.progress) \notin Reached

\* C2 (as the code has it): a ServiceError of a Normal entry's operation makes
\* apply_entries return true with the cursor still at that entry and nothing
\* later applied; after a user error the cursor moves past the entry and the
\* loop goes on, unless saving the advanced cursor fails: then apply_entries
\* returns true and the loop ends.
C2_HaltIffServiceError ==
    lastApply.kind = "Normal" =>
        /\ lastApply.result \in ServiceErrors =>
              /\ ApplyReturned /\ ret = "true" /\ stopped
              /\ Current(pers.progress) = lastApply.index
              /\ Current(disk.progress) = lastApply.index
              /\ \A k \in 1..Len(handled) : handled[k] < lastApply.index
        /\ lastApply.result \in UserErrors /\ ~lastApply.saveFailed =>
              /\ pcApply = "loop" /\ ret = "none" /\ ~stopped
              /\ handled # <<>> /\ handled[Len(handled)] = lastApply.index
              /\ pers.progress.next = lastApply.index + 1
              /\ disk.progress.next = lastApply.index + 1
        /\ lastApply.result \in UserErrors /\ lastApply.saveFailed =>
              /\ ApplyReturned /\ ret = "true" /\ stopped
              /\ \A k \in 1..Len(handled) : handled[k] < lastApply.index

\* a user error was followed by the next loop iteration
C2_Witness ==
    /\ lastApply.kind = "Normal" /\ lastApply.result \in UserErrors
    /\ ~lastApply.saveFailed /\ pcApply = "loop"
    /\ Current(pers.progress) = lastApply.index + 1

\* C2 as stated: after any user-class error the cursor advances and the loop
\* continues.
C2_UserErrorAlwaysContinues ==
    (lastApply.kind = "Normal" /\ lastApply.result \in UserErrors) =>
        /\ pcApply = "loop"
        /\ pers.progress.next = lastApply.index + 1

C4_WaiterNotifiedOnce ==
    /\ (lastApply.kind = "Normal" /\ lastApply.waiter # NoWaiter) =>
          /\ sent[lastApply.waiter] = <<lastApply.result>>
          /\ \A o \in ConsensusOperations : waiters[o] # lastApply.waiter
    /\ \A w \in 1..MaxWaiters : Len(sent[w]) <= 1
    /\ \A o \in ConsensusOperations :
          waiters[o] # NoWaiter => sent[waiters[o]] = <<>>

\* a waiting caller got the error of its operation
C4_Witness ==
    /\ lastApply.kind = "Normal" /\ lastApply.waiter # NoWaiter
    /\ lastApply.result \in UserErrors
    /\ recv[lastApply.waiter] = "Got"


(***************************************************************************)
(* Properties of the catalog and the alias store.                          *)
(***************************************************************************)
\* C6: no get_collection that overlaps an update_aliases call resolves its
\* name against an alias map that holds some but not all of the actions of
\* the batch.
C6_NoPrefixSeen ==
    \A r \in Readers : ~(readSeen[r].during /\ readSeen[r].prefix)

\* C7: between meta operations no alias is named as a collection of the
\* catalog, and a CreateAlias whose alias name is a collection's name fails.
C7_NoAliasNamedAsCollection ==
    /\ pcToc = "idle" => \A n \in Names : aliases[n] # NoName => n \notin collections
    /\ (lastMeta.kind = "CreateAlias" /\ lastMeta.aliasIsColl) => lastMeta.res # "Ok"

\* C8: between meta operations, resolving a name that resolve_name resolved
\* gives that name again.
C8_ResolveIdempotent ==
    pcToc = "idle" =>
        \A n \in Names :
            ResolveName(collections, aliases, n) # "NotFound" =>
                ResolveName(collections, aliases, ResolveName(collections, aliases, n))
                    = ResolveName(collections, aliases, n)

\* C9: after CreateAlias{c -> a} and then the batch [CreateAlias{c -> a2},
\* DeleteAlias{a}, RenameAlias{a2 -> a3}], applied in this order, a3 leads to
\* the collection c, and a and a2 are not found.
C9_AliasChain ==
    scenario = 5 =>
        /\ GetCollection(collections, aliases, "a3") = "c"
        /\ GetCollection(collections, aliases, "a") = "NotFound"
        /\ GetCollection(collections, aliases, "a2") = "NotFound"

\* the batch of the scenario has returned
C9_Witness == scenario = 5 /\ pcToc = "idle" /\ batchApplied = 3


(***************************************************************************)
(* Properties of the segment contract.                                     *)
(***************************************************************************)
\* C5: an operation whose op_num does not exceed the version of its point
\* leaves the segment as it is and returns Ok(false); delete_point at op_num 3
\* right after an upsert of the point at op_num 5 leaves the point in place at
\* version 5; no point's version exceeds the version of the segment.
C5_VersionGate ==
    /\ [][LET op == lastSegOp'
              pv == points[op.id].version
          IN  /\ (pv # NoVersion /\ op.opNum <= pv) =>
                    /\ points' = points /\ segVersion' = segVersion
                    /\ op.result = "OkFalse"
              /\ (/\ lastSegOp.kind = "upsert_vector" /\ lastSegOp.opNum = 5
                  /\ lastSegOp.result = "OkTrue"
                  /\ op.kind = "delete_point" /\ op.opNum = 3 /\ op.id = lastSegOp.id) =>
                    /\ points'[op.id].has
                    /\ points'[op.id].version = 5]_vars
    /\ [](\A id \in PointIds : points[id].version <= segVersion)

\* a delete at op_num 3 found the point at version 5 and had no effect
C5_Witness ==
    /\ lastSegOp.kind = "delete_point" /\ lastSegOp.opNum = 3
    /\ lastSegOp.result = "OkFalse"
    /\ points[lastSegOp.id].has /\ points[lastSegOp.id].version = 5

(***************************************************************************)
(* Properties of the write gate.                                           *)
(***************************************************************************)
ClientCallWhileLocked ==
    /\ lastUpdate.locked /\ lastUpdate.shard = NoShard
    /\ lastUpdate.outcome # "-" /\ lastUpdate.outcome # "NotFound"

\* C10 (as the code has it): while the gate is engaged, an update with
\* shard_selection = None on an existing collection is rejected with Locked,
\* the collection untouched, exactly when is_write_operation holds of the
\* operation; of the payload operations these are SetPayload and
\* SetPayloadByFilter, while DeletePayload, ClearPayload and
\* ClearPayloadByFilter reach the collection.
C10_GateRejectsWriteOperations ==
    ClientCallWhileLocked =>
        /\ IsWriteOperation(lastUpdate.op) =>
              lastUpdate.outcome = "Locked" /\ collState = lastUpdate.before
        /\ (lastUpdate.op.family = "payload"
              /\ lastUpdate.op.variant \in {"SetPayload", "SetPayloadByFilter"}) =>
              lastUpdate.outcome = "Locked" /\ collState = lastUpdate.before
        /\ (lastUpdate.op.family = "payload"
              /\ lastUpdate.op.variant \notin {"SetPayload", "SetPayloadByFilter"}) =>
              lastUpdate.outcome = "FromClient" /\ collState = lastUpdate.before + 1

\* a SetPayload of a client was rejected
C10_Witness ==
    /\ ClientCallWhileLocked /\ lastUpdate.op.variant = "SetPayload"
    /\ lastUpdate.outcome = "Locked"

\* C10 as stated: while the gate is engaged every payload operation of a
\* client on an existing collection is rejected with Locked.
C10_EveryPayloadOpRejected ==
    (ClientCallWhileLocked /\ lastUpdate.op.family = "payload") =>
        lastUpdate.outcome = "Locked" /\ collState = lastUpdate.before


\* C12: snapshot(request_index, _) answers SnapshotTemporarilyUnavailable exactly
\* when hard_state.commit < request_index; any other answer is a snapshot with
\* index = hard_state.commit, term = hard_state.term, the current conf_state,
\* and data that decodes to the ToC's collections snapshot and the peer map.
C12_SnapshotContract ==
    lastSto.op = "snapshot" =>
        /\ (lastSto.res.err = "SnapshotTemporarilyUnavailable")
                <=> (pers.hard_state.commit < lastSto.arg)
        /\ lastSto.res.err # "SnapshotTemporarilyUnavailable" =>
              /\ lastSto.res.err = "-"
              /\ lastSto.res.val.metadata =
                    [conf_state |-> pers.conf, index |-> pers.hard_state.commit,
                     term |-> pers.hard_state.term]
              /\ SnapshotDataTryFrom(lastSto.res.val.data) =
                    [collections_data |-> CollectionsSnapshot(collections, aliases),
                     address_by_id |-> pers.peers]

\* a snapshot was handed out at the commit index, of a catalog with a collection
C12_Witness ==
    /\ lastSto.op = "snapshot" /\ lastSto.res.err = "-"
    /\ lastSto.arg = pers.hard_state.commit /\ lastSto.arg >= 1
    /\ collections # {}

\* no fault of the disk or of the ToC got in the way of the last apply_snapshot
SnapshotOnFreshNode ==
    lastSto.op = "apply_snapshot" /\ lastSto.fresh /\ lastSto.io = "ok"

\* what C13 promises of the state after the call
RoundTripHolds ==
    /\ lastSto.res = Ok(0)
    /\ CollectionsSnapshot(collections, aliases) = lastSto.src
    /\ raftLog = <<>>
    /\ FirstIndex(raftLog, pers) = lastSto.arg.index + 1
    /\ LastIndex(raftLog, pers) = lastSto.arg.index

C14_StaleSnapshotRejected ==
    [][lastSto'.op = "apply_snapshot" =>
          /\ (lastSto'.res = Err("Snapshot out of date"))
                <=> (lastSto'.arg.index < FirstIndex(raftLog, pers))
          /\ lastSto'.res = Err("Snapshot out of date") =>
                UNCHANGED <<collections, aliases, raftLog, pers, disk>>]_vars

\* a snapshot behind a log that holds entries was turned away
C14_Witness ==
    /\ lastSto.op = "apply_snapshot" /\ lastSto.res = Err("Snapshot out of date")
    /\ lastSto.arg.index = 1
    /\ raftLog # <<>> /\ FirstIndex(raftLog, pers) = 3

\* the entries of the log with the indices low..high-1
LogRange(low, high) ==
    SubSeq(raftLog, low - raftLog[1].index + 1, high - raftLog[1].index)

\* C16: for first_index <= low < high <= last_index + 1, entries(low, high,
\* max_size) is a prefix of the entries low..high-1 and not empty; with
\* max_size = 0 it is the one entry at low.
C16_EntriesNonEmptyPrefix ==
    (/\ lastSto.op = "entries"
     /\ FirstIndex(raftLog, pers) <= lastSto.arg[1]
     /\ lastSto.arg[1] < lastSto.arg[2]
     /\ lastSto.arg[2] <= LastIndex(raftLog, pers) + 1) =>
        /\ lastSto.res.err = "-"
        /\ Len(lastSto.res.val) >= 1
        /\ Len(lastSto.res.val) <= lastSto.arg[2] - lastSto.arg[1]
        /\ lastSto.res.val =
              SubSeq(LogRange(lastSto.arg[1], lastSto.arg[2]), 1, Len(lastSto.res.val))
        /\ lastSto.arg[3] = 0 =>
              /\ Len(lastSto.res.val) = 1
              /\ lastSto.res.val[1].index = lastSto.arg[1]

\* three entries were asked for with max_size = 0, after a snapshot
C16_Witness ==
    /\ lastSto.op = "entries" /\ lastSto.arg = <<2, 4, 0>>
    /\ pers.latest_snapshot_meta.index = 1
    /\ Len(raftLog) = 2 /\ Len(lastSto.res.val) = 1

\* C17: after any appends and snapshot installations first_index, last_index,
\* term and entries answer as the reference log does, errors included; with
\* an empty WAL first_index is the snapshot index + 1 and last_index the
\* snapshot index.
C17_AgreesWithReference ==
    /\ lastSto.op = "indexes" =>
          lastSto.res = Ok(<<MemFirstIndex(mem), MemLastIndex(mem)>>)
    /\ lastSto.op = "term" => lastSto.res = MemTerm(mem, lastSto.arg)
    /\ lastSto.op = "entries" =>
          lastSto.res = MemEntries(mem, lastSto.arg[1], lastSto.arg[2], lastSto.arg[3])
    /\ raftLog = <<>> =>
          /\ FirstIndex(raftLog, pers) = pers.latest_snapshot_meta.index + 1
          /\ LastIndex(raftLog, pers) = pers.latest_snapshot_meta.index

\* C18: after apply_state_update the in-memory state and the file agree; a
\* success leaves the new value in both, and load_or_init reads it back; a
\* failed write gives an error and keeps the old value in memory; a crash
\* before the write went through leaves the old value in the file.
C18_StateUpdateAtomic ==
    [][/\ lastSto'.op = "apply_state_update" =>
             /\ pers' = disk'
             /\ lastSto'.io = "ok" =>
                   /\ lastSto'.res = Ok(0)
                   /\ pers' = lastSto'.arg /\ LoadOrInit(disk') = lastSto'.arg
             /\ lastSto'.io # "ok" =>
                   /\ lastSto'.res.err = "ServiceErr"
                   /\ pers' = pers
       /\ lastSto'.op = "crash" =>
             /\ disk' = disk /\ pers' = LoadOrInit(disk)]_vars

\* a write of the commit index failed after one had succeeded
C18_Witness ==
    /\ lastSto.op = "apply_state_update" /\ lastSto.io = "saveFail"
    /\ lastSto.arg.hard_state.commit = 2
    /\ pers.hard_state.commit = 1 /\ disk = pers

\* C19: a Start makes a transfer live only when from holds an Active replica
\* of the shard, to is a known peer and no live transfer has the same key;
\* else handle_transfer returns an error, starts nothing and hands out no
\* callback.  No two live transfers share a key.
C19_TransferStartValidated ==
    /\ [](\A t1, t2 \in transfers : TransferKey(t1) = TransferKey(t2) => t1 = t2)
    /\ [][lastXfer'.kind = "Start" =>
            LET t == lastXfer'.transfer
                allowed ==
                    /\ ReplicaOf(ShardState(replicas, t.shard_id), t.from) = "Active"
                    /\ t.to \in KnownPeers
                    /\ \A c \in transfers : TransferKey(c) # TransferKey(t)
            IN  /\ lastXfer'.started => allowed
                /\ lastXfer'.started <=> (transfers' # transfers)
                /\ lastXfer'.started => transfers' = transfers \cup {t}
                /\ ~allowed =>
                      /\ lastXfer'.res # "Ok"
                      /\ ~lastXfer'.callbacks
                      /\ UNCHANGED <<transfers, replicas>>]_vars

\* with A Active, A -> B is live and B -> A was turned away
C19_Witness ==
    /\ [shard_id |-> 1, from |-> "A", to |-> "B", sync |-> FALSE] \in transfers
    /\ replicas["A"] = "Active" /\ replicas["B"] = "Partial"
    /\ lastXfer.kind = "Start" /\ lastXfer.res = "BadRequest"
    /\ lastXfer.transfer = [shard_id |-> 1, from |-> "B", to |-> "A", sync |-> FALSE]

\* C20: a call of propose_consensus_op or propose_consensus_op_with_await that
\* waits for a leader stops waiting, leader or no leader; the call with await
\* that gave up has a service error, has sent nothing and stored no waiter.
C20_ProposeGivesUp ==
    /\ \A c \in Callers :
          (pcPropose[c] = "awaitLeader") ~> (pcPropose[c] # "awaitLeader")
    /\ [](\A c \in AwaitCallers :
            proposeRes[c] = "LeaderNotEstablished" =>
                /\ proposeWaiter[c] = NoWaiter
                /\ \A k \in 1..Len(proposeChannel) : proposeChannel[k].by # c)

\* C21: the proposal channel never holds more than ChannelCapacity proposals,
\* and no step adds a proposal to a channel that holds ChannelCapacity of them.
C21_ChannelBounded ==
    /\ [](Len(proposeChannel) <= ChannelCapacity)
    /\ [][Len(proposeChannel) >= ChannelCapacity =>
              Len(proposeChannel') <= Len(proposeChannel)]_vars

\* the result waiter w has received, if it has received one
ReceivedOk(w) ==
    w # NoWaiter /\ recv[w] = "Got" /\ sent[w][Len(sent[w])] \in OkResults

\* C22: a call with confirmation that has returned Ok has received an Ok for
\* its operation and an Ok for its Nop; a step that proposes a Nop is taken
\* when the Ok of the operation has already been received; a call whose
\* operation failed or timed out has proposed no Nop and has returned an error.
C22_ConfirmedAfterNop ==
    /\ [](\A c \in AwaitCallers :
            /\ nopWaiter[c] # NoWaiter => ReceivedOk(proposeWaiter[c])
            /\ (proposeArg[c].confirm /\ pcPropose[c] = "returned"
                    /\ proposeRes[c] \in OkResults) =>
                  /\ ReceivedOk(proposeWaiter[c])
                  /\ ReceivedOk(nopWaiter[c])
            /\ (pcPropose[c] = "returned" /\ proposeWaiter[c] # NoWaiter
                    /\ ~ReceivedOk(proposeWaiter[c])) =>
                  /\ nopWaiter[c] = NoWaiter
                  /\ proposeRes[c] \notin OkResults)
    /\ [][\A c \in AwaitCallers :
            (/\ Len(proposeChannel') = Len(proposeChannel) + 1
             /\ proposeChannel'[Len(proposeChannel')] = [by |-> c, op |-> NopOperation])
            => ReceivedOk(proposeWaiter[c])]_vars

\* a call with confirmation has returned Ok
C22_Witness ==
    \E c \in AwaitCallers :
        /\ proposeArg[c].confirm /\ pcPropose[c] = "returned"
        /\ proposeRes[c] \in OkResults /\ ReceivedOk(nopWaiter[c])

\* a call with confirmation whose operation failed has returned
C22_WitnessError ==
    \E c \in AwaitCallers :
        /\ proposeArg[c].confirm /\ pcPropose[c] = "returned"
        /\ proposeWaiter[c] # NoWaiter /\ ~ReceivedOk(proposeWaiter[c])

\* C23: a create_collection that has failed with BadInput has changed nothing:
\* not the catalog, not the directories, not what is on disk.
C23_RejectedCreateChangesNothing ==
    [][(lastCreate'.kind = "Create" /\ lastCreate'.res = "BadInput") =>
          /\ catalog' = catalog
          /\ collDirs' = collDirs /\ snapDirs' = snapDirs
          /\ onDisk' = onDisk]_vars

\* C24: every collection of the catalog has at least one shard and as many as
\* it was built with, a replication factor of at least 1, and a write
\* consistency factor that is not above the replication factor.
C24_CollectionParamsValid ==
    \A n \in NewNames :
        catalog[n] # NoColl =>
            /\ catalog[n].shards >= 1
            /\ catalog[n].shards = onDisk[n].shards
            /\ catalog[n].rf >= 1
            /\ catalog[n].wcf <= catalog[n].rf

\* what C24 says of the shard count and of the two factors being at least 1
ParamsNonZero ==
    \A n \in NewNames :
        catalog[n] # NoColl =>
            /\ catalog[n].shards >= 1
            /\ catalog[n].shards = onDisk[n].shards
            /\ catalog[n].rf >= 1
            /\ catalog[n].wcf >= 1

\* a replica is Active only of a collection that is built and in the catalog
ActiveOnlyOfInserted ==
    \A n \in NewNames :
        localActive[n] # {} => (catalog[n] # NoColl /\ onDisk[n] = catalog[n])

\* the steps of create_collection in cluster mode leave the replica states alone
CreateNeverActivatesInCluster ==
    (cluster /\ pcCreate # "idle") => localActive' = localActive

BothHeldInOrder(t, first, second) ==
    \A i, j \in 1..Len(held[t]) :
        (held[t][i].lock = second /\ held[t][j].lock = first) => j < i

\* task t is about to ask for lock l
Requests(t, l) ==
    taskProg[t] # <<>> /\ Head(taskProg[t]).act = "acq" /\ Head(taskProg[t]).lock = l

\* C26: no task of the ToC asks for the catalog lock while it holds the alias
\* store's lock, and a task that holds both got the catalog lock first.
C26_CatalogBeforeAlias ==
    \A t \in LockTasks :
        /\ Requests(t, "catalog") => ~Holds(held, t, "alias")
        /\ BothHeldInOrder(t, "catalog", "alias")

\* a task holds the catalog lock and the alias store's lock
C26_Witness ==
    \E t \in LockTasks : Holds(held, t, "catalog") /\ Holds(held, t, "alias")

\* a reader inside get_collection holds both locks
C26_WitnessReader ==
    \E t \in LockTasks :
        /\ taskPath[t].fn = "get_collection"
        /\ Holds(held, t, "catalog") /\ Holds(held, t, "alias")

\* C27: no function of ConsensusState asks for the lock of the persistent
\* state while it holds the lock of the WAL, a thread that holds both got the
\* one of the persistent state first, and only the consensus driver holds both.
C27_PersistentBeforeWal ==
    \A t \in LockTasks :
        /\ Requests(t, "persistent") => ~Holds(held, t, "wal")
        /\ BothHeldInOrder(t, "persistent", "wal")
        /\ (Holds(held, t, "persistent") /\ Holds(held, t, "wal")) => t = "driver"

\* C28: estimate_effect_area gives Points with the ids of an operation that
\* carries ids, Filter with the filter of an operation by filter, and Empty for
\* a field index operation.
C28_EffectAreaExact ==
    effectOut # NotCalled =>
        CASE opIn.family = "field_index" -> effectOut = Empty
          [] opIn.variant \in {"DeletePointsByFilter", "SetPayloadByFilter",
                               "ClearPayloadByFilter"} ->
                effectOut = Filter(opIn.filter)
          [] OTHER -> effectOut = Points(opIn.ids)

\* how often id comes in the list
RECURSIVE Count(_, _)
Count(ids, id) ==
    IF ids = <<>> THEN 0 ELSE (IF Head(ids) = id THEN 1 ELSE 0) + Count(Tail(ids), id)

\* one list is the other with some elements left out
RECURSIVE IsSubsequence(_, _)
IsSubsequence(sub, ids) ==
    IF sub = <<>> THEN TRUE
    ELSE IF ids = <<>> THEN FALSE
    ELSE IF Head(sub) = Head(ids) THEN IsSubsequence(Tail(sub), Tail(ids))
    ELSE IsSubsequence(sub, Tail(ids))

\* C29: split_by_shard of a payload operation with ids gives, for each shard
\* that the ring routes an id to, an operation of the same kind with the same
\* payload or keys; every id is in the operation of its shard and in no other,
\* as often as in the input and in the order of the input; an operation by
\* filter goes unchanged to all shards.
C29_SplitIsPartition ==
    splitOut # NotSplit =>
        IF opIn.variant \in {"SetPayloadByFilter", "ClearPayloadByFilter"}
        THEN splitOut = ToAll(opIn)
        ELSE /\ splitOut.kind = "ByShard"
             /\ \A shard \in DOMAIN splitOut.byShard :
                   LET sub == splitOut.byShard[shard] IN
                   /\ sub.variant = opIn.variant /\ sub.data = opIn.data
                   /\ sub.ids # <<>>
                   /\ \A k \in 1..Len(sub.ids) : ringIn[sub.ids[k]] = shard
                   /\ IsSubsequence(sub.ids, opIn.ids)
             /\ \A id \in PointIds :
                   Count(opIn.ids, id) > 0 =>
                       /\ ringIn[id] \in DOMAIN splitOut.byShard
                       /\ Count(splitOut.byShard[ringIn[id]].ids, id) = Count(opIn.ids, id)

\* an operation with ids was split over two shards, one of them with two ids
C29_Witness ==
    /\ splitOut.kind = "ByShard"
    /\ opIn.variant = "DeletePayload"
    /\ DOMAIN splitOut.byShard = Shards
    /\ \E shard \in Shards : Len(splitOut.byShard[shard].ids) = 2

\* an operation by filter was split
C29_WitnessFilter == splitOut.kind = "ToAll"

\* the rows of the deleted-flags file whose byte is not zero
DeletedRows == {k \in 1..Len(deletedFile.rows) : deletedFile.rows[k] # 0}

C31_WitnessGet ==
    /\ lastMmap.op = "get_vector" /\ lastMmap.res = "None"
    /\ lastMmap.key < mmapVectors.num_vectors
    /\ mmapVectors.deleted_count = MaxVectors

\* C32: MmapVectors::open on an existing vectors file that does not begin
\* with "data", or an existing deleted-flags file that does not begin with
\* "drop", returns a ServiceError and gives no store; a file that is missing
\* when open succeeds has been created with its magic header.
C32_OpenChecksMagic ==
    /\ [](lastMmap.op = "open" /\
            (vectorsFile.header # VECTORS_HEADER \/ deletedFile.header # DELETED_HEADER)
            => lastMmap.res = "ServiceErr" /\ ~mmapVectors.open)
    /\ [][lastMmap'.op = "open" /\ lastMmap'.res = "Ok" =>
            /\ ~vectorsFile.exists => vectorsFile'.header = VECTORS_HEADER
            /\ ~deletedFile.exists => deletedFile'.header = DELETED_HEADER]_vars

\* the place of the request of `proc` in the queue of the catalog lock (0: none)
QueuePlace(proc) ==
    IF \E k \in 1..Len(catQueue) : catQueue[k].proc = proc
    THEN CHOOSE k \in 1..Len(catQueue) : catQueue[k].proc = proc
    ELSE 0

\* reader r holds the guard of get_collection and waits inside resolve_name
\* behind the writer, which waits for that guard
WaitsBehindWriter(r) ==
    /\ pcRead[r] = "waitInner" /\ catHeld[r] = 1
    /\ QueuePlace(MetaThread) > 0
    /\ QueuePlace(MetaThread) < QueuePlace(r)

\* C33: a get_collection call next to a catalog writer cannot deadlock: while
\* it holds the catalog read lock and resolve_name asks for that lock again,
\* its request never waits behind a writer that queued in between.
C33_GetCollectionNeverStuck == \A r \in Readers : ~WaitsBehindWriter(r)

\* C34: apply_collections_snapshot terminates for every snapshot: the meta
\* thread never asks for the catalog write lock while it holds the guard it
\* took at the start of the reconcile, also when delete_collection is called
\* for a local collection that the snapshot lacks.
C34_SnapshotNeverWaitsForOwnLock == ~(catWriter /\ QueuePlace(MetaThread) > 0)

\* C35: a caller that registered a waiter for an operation gets the result of
\* that operation when it is applied in time, also when another caller waits
\* for an equal operation: no registered receiver finds its sender dropped,
\* and a waiter that is still waiting is the one stored under some operation.
C35_WaiterNeverReplaced ==
    \A w \in 1..MaxWaiters :
        /\ recv[w] # "SenderDropped"
        /\ recv[w] = "waiting" => \E op \in ConsensusOperations : waiters[op] = w

\* Persistent::last_applied_entry (line 585): the entry before the cursor
LastAppliedEntry == IF pers.progress.has THEN pers.progress.next - 1 ELSE 0

\* C36: a snapshot that snapshot() has handed out between two runs of
\* apply_entries, the persistent state being still the one it was taken from,
\* has a metadata index that is not beyond the last entry applied to the ToC,
\* whose collections it carries, also when committed entries are unapplied.
C36_SnapshotIndexIsApplied ==
    (/\ lastSto.op = "snapshot" /\ lastSto.res.err = "-"
     /\ pcApply = "idle" /\ ~stopped
     /\ lastSto.res.val.metadata.index = pers.hard_state.commit)
    => lastSto.res.val.metadata.index <= LastAppliedEntry

\* update_aliases has returned an error
BatchFailed ==
    /\ pcToc = "idle"
    /\ lastMeta.kind \in {"CreateAlias", "DeleteAlias", "RenameAlias"}
    /\ lastMeta.res # "Ok"

\* C40: when update_aliases has returned an error, the alias map is the one
\* the batch began with, which for the one batch of SpecAliasBatch is the
\* empty map of the loaded ToC: no action before the failing one remains
\* applied.
C40_UpdateAliasesAllOrNothing == BatchFailed => aliases = NoAliases

\* C37: after any sequence of create_collection, delete_collection and
\* update_aliases, every alias of the alias store targets a collection of the
\* catalog, so get_collection of an alias that is present finds its collection.
C37_NoDanglingAlias ==
    pcToc = "idle" =>
        \A a \in Names :
            AliasGet(aliases, a) # NoName =>
                /\ AliasGet(aliases, a) \in collections
                /\ GetCollection(collections, aliases, a) # "NotFound"

\* C38: the meta operation of a committed Normal entry is executed against
\* the ToC at most once, also when the process halts or dies after the
\* operation returned and before entry_applied has persisted the cursor, and
\* apply goes on from the persisted cursor after the restart.
C38_ExecutedAtMostOnce ==
    \A j, k \in 1..Len(tocLog) : j # k => tocLog[j].index # tocLog[k].index

\* the entry the apply loop is at
UnappliedData == WalEntry(wal, UnappliedIndex(pers)).data

\* apply_conf_change_entry has run for an entry with an AddLearnerNode change
AddLearnerStep ==
    /\ pcApply = "loop"
    /\ WalHasEntry(wal, UnappliedIndex(pers))
    /\ UnappliedData.change = "AddLearnerNode"
    /\ lastApply'.kind = "ConfChange"
    /\ handled' # handled \/ pcApply' = "idle"

\* the peer of the change is in the address map; the waiter under the AddPeer
\* operation of that peer is out of the map and, when its receiver was still
\* there, has got Ok(true) and nothing else
LearnerAddedAndNotified ==
    LET key == [type |-> "AddPeer", arg |-> UnappliedData.node]
        w == waiters[key]
    IN  /\ UnappliedData.node \in pers'.peers
        /\ waiters'[key] = NoWaiter
        /\ \A o \in ConsensusOperations \ {key} : waiters'[o] = waiters[o]
        /\ w # NoWaiter => sent'[w] = Append(sent[w], "OkTrue")
        /\ w # NoWaiter /\ recv[w] = "waiting" => recv'[w] = "Got"

\* the loop goes on to the next entry, the cursor moved past this one
ApplyContinues ==
    /\ pcApply' = "loop" /\ ~stopped' /\ ret' = ret
    /\ handled' = Append(handled, UnappliedIndex(pers))
    /\ pers'.progress = Applied(pers.progress)

\* apply_entries leaves with true, the cursor still on this entry
ApplyHaltsOnEntry ==
    /\ pcApply' = "idle" /\ ret' = "true" /\ stopped'
    /\ handled' = handled
    /\ pers'.progress = pers.progress
    /\ disk'.progress = disk.progress

\* apply_conf_change_entry has run for an entry with a RemoveNode change
RemoveNodeStep ==
    /\ pcApply = "loop"
    /\ WalHasEntry(wal, UnappliedIndex(pers))
    /\ UnappliedData.change = "RemoveNode"
    /\ lastApply'.kind = "ConfChange"
    /\ handled' # handled \/ pcApply' = "idle"

\* the peer is a voter or a learner of the conf state
InConfState(p, peer) == peer \in p.conf.voters \cup p.conf.learners

\* C39: after a RemoveNode change was processed with no storage failure, the
\* persisted conf_state and the ToC agree about the peer: when the ToC has
\* rejected the removal, a peer that was a member of conf_state still is one
\* and keeps its address; when conf_state has lost the peer, the ToC has
\* removed it; and when it was removed, apply_entries leaves with true exactly
\* if the peer is this peer.
C39_ConfStateAgreesWithToc ==
    [][RemoveNodeStep /\ lastApply'.io = "none" /\ ~lastApply'.saveFailed =>
        /\ lastApply'.result \in UserErrors /\ InConfState(pers, UnappliedData.node) =>
              /\ InConfState(pers', UnappliedData.node)
              /\ InConfState(disk', UnappliedData.node)
              /\ pers'.peers = pers.peers
        /\ InConfState(pers, UnappliedData.node)
           /\ ~InConfState(pers', UnappliedData.node) =>
              lastApply'.result = "OkTrue"
        /\ lastApply'.result = "OkTrue" =>
              /\ ~InConfState(pers', UnappliedData.node)
              /\ UnappliedData.node \notin pers'.peers \ {ThisPeer}
              /\ stopped' <=> UnappliedData.node = ThisPeer]_vars

\* C30 as stated: applying an AddLearnerNode change whose context parses as
\* a URI adds the peer under the node id and notifies the waiter of the
\* matching AddPeer operation with Ok(true); with an empty context no peer is
\* added and the apply loop continues; with any other context apply_entries
\* halts consensus and the cursor stays.
C30_AddLearnerByContext ==
    [][AddLearnerStep =>
        /\ UnappliedData.ctx = "uri" => LearnerAddedAndNotified
        /\ UnappliedData.ctx = "empty" =>
              /\ pers'.peers = pers.peers
              /\ ApplyContinues
        /\ UnappliedData.ctx = "garbage" =>
              /\ pers'.peers = pers.peers
              /\ ApplyHaltsOnEntry]_vars

\* C30: when raw_node.apply_conf_change and the writes of the persistent
\* state succeed, applying an AddLearnerNode change whose context parses as a
\* URI adds the peer under the node id and notifies the waiter of the matching
\* AddPeer operation with Ok(true), and with an empty context no peer is added
\* and the apply loop continues; when one of them fails, apply_entries halts
\* on the entry, and no waiter is notified unless the write that failed was
\* that of the cursor.  With any other context no peer is added, no waiter is
\* notified and apply_entries halts on the entry.
C30_AddLearnerByContextWhenStored ==
    [][AddLearnerStep =>
        LET written == lastApply'.io = "none"
            stored == written /\ ~lastApply'.saveFailed
        IN  /\ UnappliedData.ctx = "uri" /\ written => LearnerAddedAndNotified
            /\ UnappliedData.ctx = "uri" /\ ~written =>
                  UNCHANGED <<waiters, recv, sent>>
            /\ UnappliedData.ctx \in {"empty", "garbage"} =>
                  /\ pers'.peers = pers.peers
                  /\ UNCHANGED <<waiters, recv, sent>>
            /\ UnappliedData.ctx \in {"uri", "empty"} /\ stored => ApplyContinues
            /\ UnappliedData.ctx = "garbage" \/ ~stored => ApplyHaltsOnEntry]_vars

\* an AddLearnerNode change with a URI was applied and the caller waiting for
\* the AddPeer operation has got Ok(true)
C30_Witness ==
    /\ lastApply.kind = "ConfChange"
    /\ lastApply.op = [type |-> "AddPeer", arg |-> 2]
    /\ lastApply.waiter # NoWaiter
    /\ lastApply.io = "none"
    /\ recv[lastApply.waiter] = "Got"
    /\ sent[lastApply.waiter] = <<"OkTrue">>
    /\ 2 \in pers.peers

\* an AddLearnerNode change whose context is not empty and does not parse has
\* halted consensus
C30_WitnessUnparsable ==
    /\ lastApply.kind = "ConfChange"
    /\ WalHasEntry(wal, lastApply.index)
    /\ WalEntry(wal, lastApply.index).data.ctx = "garbage"
    /\ lastApply.io = "none"
    /\ stopped /\ ret = "true"

\* an AddLearnerNode change with an empty context was applied and the loop
\* went on
C30_WitnessEmpty ==
    /\ lastApply.kind = "ConfChange"
    /\ WalHasEntry(wal, lastApply.index)
    /\ WalEntry(wal, lastApply.index).data.ctx = "empty"
    /\ pcApply = "loop" /\ handled = <<lastApply.index>>

C11_PeerWritesBypassGate ==
    (lastUpdate.via \in InternalWriteHandlers /\ lastUpdate.outcome # "NotFound") =>
        /\ lastUpdate.shard # NoShard
        /\ lastUpdate.outcome = "FromPeer"

====
